---- MODULE Spec2Model ----
(***************************************************************************)
(* A model of the dynamo-query data-access layer: the SQL-like (document  *)
(* store) query compiler and facade of src/unnamed/part_000 and the       *)
(* key-value (scan/get/put/update/delete) facade of                       *)
(* src/src/services/cosmos-db.service.ts, lines 1-384.                    *)
(*                                                                         *)
(* JavaScript values are records [t |-> tag, v |-> payload]:              *)
(*   "undefined", "null"            v = <<>>                              *)
(*   "B"  boolean                   v \in BOOLEAN                         *)
(*   "N"  integral number           v \in Int                             *)
(*   "NF" non-integral number       v = n stands for n + 0.5              *)
(*   "S"  string                    v = sequence of characters            *)
(*   "array"                        v = sequence of values                *)
(*   "object"                       v = sequence of <<key, value>> pairs, *)
(*                                  in insertion order                    *)
(* Query text is rendered into TLA+ strings.                              *)
(***************************************************************************)
EXTENDS Integers, Sequences, FiniteSets, TLC

VARIABLES
    backend,   \* which BaseModel this is: "kv" (key-value) or "sql" (SQL-like)
    options,   \* the ModelOptions fixed at construction
    table,     \* the items held by the external store
    now,       \* the clock read by new Date()
    pending,   \* the SQL-like update/delete suspended between its two store calls
    last,      \* the outcome of the last completed public method invocation
    input,     \* the argument of a query-compiler function under check
    output     \* the value that function returned

vars == <<backend, options, table, now, pending, last, input, output>>

-----------------------------------------------------------------------------
(* Bounds of the model *)

MaxOps == 2
MaxFields == 2
MaxClock == 1
MaxTake == 2

-----------------------------------------------------------------------------
(* JavaScript values *)

Undefined == [t |-> "undefined", v |-> <<>>]
Null == [t |-> "null", v |-> <<>>]
Bool(b) == [t |-> "B", v |-> b]
Num(n) == [t |-> "N", v |-> n]
NumHalf(n) == [t |-> "NF", v |-> n]
Str(s) == [t |-> "S", v |-> s]
Arr(s) == [t |-> "array", v |-> s]
Obj(s) == [t |-> "object", v |-> s]

RECURSIVE Concat(_)
Concat(chars) ==
    IF chars = <<>> THEN "" ELSE Head(chars) \o Concat(Tail(chars))

RECURSIVE Join(_, _)
Join(strs, sep) ==
    IF strs = <<>> THEN ""
    ELSE IF Len(strs) = 1 THEN strs[1]
    ELSE strs[1] \o sep \o Join(Tail(strs), sep)

RECURSIVE Flatten(_)
Flatten(seqs) ==
    IF seqs = <<>> THEN <<>> ELSE Head(seqs) \o Flatten(Tail(seqs))

Keys(o) == [i \in 1..Len(o.v) |-> o.v[i][1]]

HasKey(o, k) == \E i \in 1..Len(o.v) : o.v[i][1] = k

Get(o, k) ==
    IF HasKey(o, k)
    THEN o.v[CHOOSE i \in 1..Len(o.v) : o.v[i][1] = k][2]
    ELSE Undefined

\* `${value}` : String(value)
RECURSIVE TemplateStr(_)
TemplateStr(x) ==
    CASE x.t = "undefined" -> "undefined"
      [] x.t = "null" -> "null"
      [] x.t = "B" -> IF x.v THEN "true" ELSE "false"
      [] x.t = "N" -> ToString(x.v)
      [] x.t = "NF" -> ToString(x.v) \o ".5"
      [] x.t = "S" -> Concat(x.v)
      [] x.t = "array" -> Join([i \in 1..Len(x.v) |-> TemplateStr(x.v[i])], ",")
      [] x.t = "object" -> "[object Object]"

\* JavaScript truthiness, as used by `take &&`, `if (nextCursor)`, `data.id ||`
Truthy(x) ==
    CASE x.t \in {"undefined", "null"} -> FALSE
      [] x.t = "B" -> x.v
      [] x.t = "N" -> x.v # 0
      [] x.t = "S" -> x.v # <<>>
      [] OTHER -> TRUE

-----------------------------------------------------------------------------
(* src/src/utils/index.ts *)

isNonEmptyString(s) == s # ""

isBoolean(x) == x.t = "B"

isNumber(x) == x.t \in {"N", "NF"}

isUndefined(x) == x.t = "undefined"

isNull(x) == x.t = "null"

isObject(x) == x.t = "object"

objectIsEmpty(x) == Len(x.v) = 0

isArray(x) == x.t = "array"

isEmptyArray(s) == Len(s) = 0

\* z.number().int().min(1).safeParse(take).success
IsPositiveInt(x) == x.t = "N" /\ x.v >= 1

-----------------------------------------------------------------------------
(* The SQL-like query compiler, src/unnamed/part_000 *)

Whitespace == {" ", "\t", "\n"}

\* IdSchema without its refine(): z.string().min(1)
IdSchemaMinOnly(id) ==
    /\ id.t = "S"
    /\ Len(id.v) >= 1

\* IdSchema: z.string().min(1).refine(/^\S+$/)
IdSchema(id) ==
    /\ id.t = "S"
    /\ Len(id.v) >= 1
    /\ \A i \in 1..Len(id.v) : id.v[i] \notin Whitespace

\* the literal of createFilter: numbers and booleans bare, the rest quoted
Literal(value) ==
    IF isBoolean(value) \/ isNumber(value)
    THEN TemplateStr(value)
    ELSE "'" \o TemplateStr(value) \o "'"

\* (value as [])?.map(literal).join(', ') inside a template: the optional
\* chain yields undefined for a null or undefined operand
MappedAndJoined(value) ==
    IF isArray(value)
    THEN Join([i \in 1..Len(value.v) |-> Literal(value.v[i])], ", ")
    ELSE "undefined"

Comparators ==
    [equals |-> "=", not |-> "!=", gt |-> ">", gte |-> ">=", lt |-> "<", lte |-> "<="]

\* createFilter with endsWith written as the CONTAINS primitive
createFilterEndsWithAsContains(field, filterKey, mode, value) ==
    CASE filterKey \in {"contains", "endsWith"} ->
            IF mode = "INSENSITIVE"
            THEN "CONTAINS(LOWER(c." \o field \o "), LOWER('" \o TemplateStr(value) \o "'))"
            ELSE "CONTAINS(c." \o field \o ", '" \o TemplateStr(value) \o "')"
      [] filterKey = "startsWith" ->
            IF mode = "INSENSITIVE"
            THEN "STARTSWITH(LOWER(c." \o field \o "), LOWER('" \o TemplateStr(value) \o "'))"
            ELSE "STARTSWITH(c." \o field \o ", '" \o TemplateStr(value) \o "')"
      [] filterKey \in DOMAIN Comparators ->
            "c." \o field \o " " \o Comparators[filterKey] \o " " \o Literal(value)
      [] filterKey = "in" -> "c." \o field \o " IN (" \o MappedAndJoined(value) \o ")"
      [] filterKey = "notIn" -> "c." \o field \o " NOT IN (" \o MappedAndJoined(value) \o ")"
      [] OTHER -> ""

createFilter(field, filterKey, mode, value) ==
    CASE filterKey = "contains" ->
            IF mode = "INSENSITIVE"
            THEN "CONTAINS(LOWER(c." \o field \o "), LOWER('" \o TemplateStr(value) \o "'))"
            ELSE "CONTAINS(c." \o field \o ", '" \o TemplateStr(value) \o "')"
      [] filterKey = "startsWith" ->
            IF mode = "INSENSITIVE"
            THEN "STARTSWITH(LOWER(c." \o field \o "), LOWER('" \o TemplateStr(value) \o "'))"
            ELSE "STARTSWITH(c." \o field \o ", '" \o TemplateStr(value) \o "')"
      [] filterKey = "endsWith" ->
            IF mode = "INSENSITIVE"
            THEN "LOWER(c." \o field \o ") LIKE '%LOWER('" \o TemplateStr(value) \o "')'"
            ELSE "c." \o field \o " LIKE '%" \o TemplateStr(value) \o "'"
      [] filterKey \in DOMAIN Comparators ->
            "c." \o field \o " " \o Comparators[filterKey] \o " " \o Literal(value)
      [] filterKey = "in" -> "c." \o field \o " IN (" \o MappedAndJoined(value) \o ")"
      [] filterKey = "notIn" -> "c." \o field \o " NOT IN (" \o MappedAndJoined(value) \o ")"
      [] OTHER -> ""

\* createFilter throws a TypeError: value.map is not a function
createFilterThrows(filterKey, value) ==
    /\ filterKey \in {"in", "notIn"}
    /\ ~isArray(value) /\ ~isNull(value) /\ ~isUndefined(value)

\* buildWhereClause throws when one of its createFilter calls does
buildWhereClauseThrows(args) ==
    /\ ~(isNull(args) \/ isUndefined(args) \/ objectIsEmpty(args))
    /\ \E i \in 1..Len(args.v) : \E j \in 1..Len(args.v[i][2].v) :
        createFilterThrows(args.v[i][2].v[j][1], args.v[i][2].v[j][2])

\* the mode of one field's filters: _filters?.mode ? _filters?.mode : 'SENSITIVE'
ModeOf(filters) ==
    IF Truthy(Get(filters, "mode")) THEN Concat(Get(filters, "mode").v) ELSE "SENSITIVE"

\* the inner map of buildWhereClause: one createFilter per entry of the field
filterQueriesForCurrentField(field, filters) ==
    [j \in 1..Len(filters.v) |->
        createFilter(field, filters.v[j][1], ModeOf(filters), filters.v[j][2])]

\* a plausible slip: only the first entry of every field is compiled
buildWhereClauseFirstEntryOnly(args) ==
    IF isNull(args) \/ isUndefined(args) \/ objectIsEmpty(args)
    THEN ""
    ELSE LET First(s) == IF s = <<>> THEN <<>> ELSE <<s[1]>>
             perField == [i \in 1..Len(args.v) |->
                            First(filterQueriesForCurrentField(args.v[i][1], args.v[i][2]))]
             conditions == SelectSeq(Flatten(perField), isNonEmptyString)
         IN  IF isEmptyArray(conditions)
             THEN ""
             ELSE Join(<<"WHERE", Join(conditions, " AND ")>>, " ")

buildWhereClause(args) ==
    IF isNull(args) \/ isUndefined(args) \/ objectIsEmpty(args)
    THEN ""
    ELSE LET perField == [i \in 1..Len(args.v) |->
                            filterQueriesForCurrentField(args.v[i][1], args.v[i][2])]
             conditions == SelectSeq(Flatten(perField), isNonEmptyString)
         IN  IF isEmptyArray(conditions)
             THEN ""
             ELSE Join(<<"WHERE", Join(conditions, " AND ")>>, " ")

\* constructFieldSelection without its filter on true
constructFieldSelectionUnfiltered(args) ==
    IF isNull(args) \/ isUndefined(args) \/ objectIsEmpty(args)
    THEN "*"
    ELSE Join([i \in 1..Len(args.v) |-> "c." \o args.v[i][1]], ", ")

constructFieldSelection(args) ==
    IF isNull(args) \/ isUndefined(args) \/ objectIsEmpty(args)
    THEN "*"
    ELSE LET IsSelected(e) == e[2] = Bool(TRUE)
             fieldsSelected == SelectSeq(args.v, IsSelected)
         IN  IF isEmptyArray(fieldsSelected)
             THEN "*"
             ELSE Join([i \in 1..Len(fieldsSelected) |-> "c." \o fieldsSelected[i][1]], ", ")

constructOrderByClause(args) ==
    IF isNull(args) \/ isUndefined(args) \/ objectIsEmpty(args)
    THEN ""
    ELSE "ORDER BY "
            \o Join([i \in 1..Len(args.v) |->
                        "c." \o args.v[i][1] \o " " \o TemplateStr(args.v[i][2])], ", ")

\* buildQueryFindMany with the ORDER BY clause ahead of the WHERE clause
buildQueryFindManyOrderFirst(dto) ==
    LET fieldsSelected == constructFieldSelection(dto.select)
        whereClause == buildWhereClause(dto.where)
        orderByClause == constructOrderByClause(dto.orderBy)
        clauses == SelectSeq(<<"SELECT", fieldsSelected, "FROM c", orderByClause, whereClause>>,
                             isNonEmptyString)
    IN  Join(clauses, " ")

buildQueryFindMany(dto) ==
    LET fieldsSelected == constructFieldSelection(dto.select)
        whereClause == buildWhereClause(dto.where)
        orderByClause == constructOrderByClause(dto.orderBy)
        clauses == SelectSeq(<<"SELECT", fieldsSelected, "FROM c", whereClause, orderByClause>>,
                             isNonEmptyString)
    IN  Join(clauses, " ")

buildQueryFindOne(dto) ==
    LET fieldsSelected == constructFieldSelection(dto.select)
        whereClause == "WHERE c.id = '" \o TemplateStr(dto.id) \o "'"
        clauses == SelectSeq(<<"SELECT", fieldsSelected, "FROM c", whereClause>>,
                             isNonEmptyString)
    IN  Join(clauses, " ")

-----------------------------------------------------------------------------
(* Inputs of the query compiler: typed where maps as the Where<T> type of  *)
(* part_000 lines 294-304 admits them (every operator key optional).       *)

StringFilterEntries ==
    { <<"startsWith", Str(<<"S", "a">>)>>,
      <<"endsWith", Str(<<"l", "y", "n">>)>>,
      <<"notIn", Arr(<<Str(<<"A">>), Str(<<"B">>)>>)>>,
      <<"mode", Str(<<"INSENSITIVE">>)>> }

NumberFilterEntries ==
    { <<"lte", Num(20)>>,
      <<"gte", Num(10)>>,
      <<"in", Arr(<<Num(25), Num(30), Num(35)>>)>> }

BooleanFilterEntries ==
    { <<"not", Bool(TRUE)>>, <<"equals", Bool(FALSE)>> }

FilterEntries(field) ==
    CASE field = "firstName" -> StringFilterEntries
      [] field = "age" -> NumberFilterEntries
      [] field = "isSuperAdmin" -> BooleanFilterEntries

WhereFields == {"firstName", "age", "isSuperAdmin"}

\* insertion-ordered maps: sequences of <<key, value>> with distinct keys
OrderedMaps(entries, n) ==
    { s \in UNION { [1..k -> entries] : k \in 0..n } :
        \A i, j \in 1..Len(s) : i # j => s[i][1] # s[j][1] }

Conditions(field) == { Obj(s) : s \in OrderedMaps(FilterEntries(field), MaxOps) }

\* the orders in which a where object may list distinct fields
FieldOrders ==
    { s \in UNION { [1..k -> WhereFields] : k \in 0..MaxFields } :
        \A i, j \in 1..Len(s) : i # j => s[i] # s[j] }

RECURSIVE WheresOver(_)
WheresOver(fields) ==
    IF fields = <<>> THEN { <<>> }
    ELSE { << <<Head(fields), c>> >> \o rest :
             c \in Conditions(Head(fields)), rest \in WheresOver(Tail(fields)) }

Wheres == {Undefined} \cup { Obj(w) : w \in UNION { WheresOver(fs) : fs \in FieldOrders } }

\* select maps, part_000 line 310: Partial<Record<keyof T, boolean>>
SelectFields == {"firstName", "lastName", "age"}

Selects ==
    {Undefined, Null}
        \cup { Obj(s) : s \in OrderedMaps({ <<f, Bool(b)>> : f \in SelectFields, b \in BOOLEAN },
                                         MaxFields) }

\* orderBy maps, part_000 line 311: Partial<Record<keyof T, 'ASC' | 'DESC'>>
Directions == { Str(<<"ASC">>), Str(<<"DESC">>) }

OrderBys ==
    {Undefined}
        \cup { Obj(s) : s \in OrderedMaps({ <<f, d>> : f \in SelectFields, d \in Directions },
                                         MaxFields) }

\* the arguments of buildQueryFindMany: a where of at most one entry, a
\* select and an orderBy
Dtos ==
    { [where |-> w, select |-> x, orderBy |-> o] :
        w \in {Undefined} \cup UNION { { Obj(<< <<f, Obj(<<e>>)>> >>) : e \in FilterEntries(f) } :
                                          f \in {"firstName", "age"} },
        x \in { Undefined,
                Obj(<< <<"firstName", Bool(TRUE)>> >>),
                Obj(<< <<"age", Bool(FALSE)>>, <<"lastName", Bool(TRUE)>> >>) },
        o \in OrderBys }

-----------------------------------------------------------------------------
(* The compiler functions applied to bounded inputs *)

NotCalled == [done |-> FALSE, val |-> ""]

Returned(s) == [done |-> TRUE, val |-> s]

Idle ==
    /\ backend = "none"
    /\ options = <<>>
    /\ table = {}
    /\ now = 0
    /\ pending = <<>>
    /\ last = <<>>

InitCompile ==
    /\ Idle
    /\ input \in { [fn |-> "buildWhereClause", arg |-> w] : w \in Wheres }
                \cup { [fn |-> "constructFieldSelection", arg |-> x] : x \in Selects }
                \cup { [fn |-> "buildQueryFindMany", arg |-> d] : d \in Dtos }
    /\ output = NotCalled

CallBuildWhereClause ==
    /\ input.fn = "buildWhereClause"
    /\ output = NotCalled
    /\ output' = Returned(buildWhereClause(input.arg))
    /\ UNCHANGED <<backend, options, table, now, pending, last, input>>

CallConstructFieldSelection ==
    /\ input.fn = "constructFieldSelection"
    /\ output = NotCalled
    /\ output' = Returned(constructFieldSelection(input.arg))
    /\ UNCHANGED <<backend, options, table, now, pending, last, input>>

CallBuildQueryFindMany ==
    /\ input.fn = "buildQueryFindMany"
    /\ output = NotCalled
    /\ output' = Returned(buildQueryFindMany(input.arg))
    /\ UNCHANGED <<backend, options, table, now, pending, last, input>>

NextCompile ==
    \/ CallBuildWhereClause
    \/ CallConstructFieldSelection
    \/ CallBuildQueryFindMany

SpecCompile == InitCompile /\ [][NextCompile]_vars

-----------------------------------------------------------------------------
(* Strings, items and keys of the external stores *)

\* the characters of the model's strings, in the order strings compare by
Alphabet ==
    <<" ", "\t", "\n", "0", "1", "2", "3", "4", "5", "6", "7", "8", "9",
      "A", "N", "T", "a", "b", "n", "u", "x">>

CharRank(c) == CHOOSE i \in 1..Len(Alphabet) : Alphabet[i] = c

RECURSIVE LexLess(_, _)
LexLess(s, r) ==
    IF r = <<>> THEN FALSE
    ELSE IF s = <<>> THEN TRUE
    ELSE IF Head(s) = Head(r) THEN LexLess(Tail(s), Tail(r))
    ELSE CharRank(Head(s)) < CharRank(Head(r))

ToLower(c) ==
    CASE c = "A" -> "a"
      [] c = "N" -> "n"
      [] c = "T" -> "t"
      [] OTHER -> c

Lower(s) == [i \in 1..Len(s) |-> ToLower(s[i])]

IsPrefix(p, s) == Len(p) <= Len(s) /\ SubSeq(s, 1, Len(p)) = p

IsSuffix(p, s) == Len(p) <= Len(s) /\ SubSeq(s, Len(s) - Len(p) + 1, Len(s)) = p

IsSubstring(p, s) ==
    \E i \in 0..(Len(s) - Len(p)) : SubSeq(s, i + 1, i + Len(p)) = p

\* an object as an item: attribute name -> value
ToItem(o) == [k \in { o.v[i][1] : i \in 1..Len(o.v) } |-> Get(o, k)]

Has(item, attr) == attr \in DOMAIN item

\* new Date().toISOString() at clock value n
ISO(n) == Str(<<"T", ToString(n)>>)

\* the values crypto.randomUUID() may return
UUIDs == { Str(<<"x", "1">>), Str(<<"x", "2">>) }

-----------------------------------------------------------------------------
(* The key-value store behind client.send(), as the facade uses it:        *)
(* PutItem, GetItem, UpdateItem, DeleteItem and Scan on one table whose    *)
(* key schema is the model's partitionKey (and sortKey), of type S.        *)

KeyAttrs(opts) ==
    IF opts.sortKey = "" THEN {opts.partitionKey} ELSE {opts.partitionKey, opts.sortKey}

IsKey(opts, k) ==
    /\ DOMAIN k = KeyAttrs(opts)
    /\ \A a \in DOMAIN k : k[a].t = "S" /\ k[a].v # <<>>

HasKeyAttrs(opts, item) ==
    /\ KeyAttrs(opts) \subseteq DOMAIN item
    /\ \A a \in KeyAttrs(opts) : item[a].t = "S" /\ item[a].v # <<>>

KeyOf(opts, item) == [a \in KeyAttrs(opts) |-> item[a]]

\* Key: marshall({[partitionKey]: id, ...(sortKey ? {[sortKey]: id} : {})})
KeyFromId(opts, id) == [a \in KeyAttrs(opts) |-> id]

KeyLess(opts, k1, k2) ==
    LET p == opts.partitionKey
        s == opts.sortKey
    IN  \/ LexLess(k1[p].v, k2[p].v)
        \/ s # "" /\ k1[p] = k2[p] /\ LexLess(k1[s].v, k2[s].v)

\* the items of a table in scan order
RECURSIVE ScanOrder(_, _)
ScanOrder(opts, items) ==
    IF items = {} THEN <<>>
    ELSE LET first == CHOOSE i \in items :
                        \A j \in items \ {i} : KeyLess(opts, KeyOf(opts, i), KeyOf(opts, j))
         IN  <<first>> \o ScanOrder(opts, items \ {first})

\* one predicate of a FilterExpression on one item
EvalFragment(frag, names, values, item) ==
    LET attr == names[frag.name]
        operand == values[frag.value]
        present == Has(item, attr)
        same == present /\ item[attr].t = operand.t
    IN  CASE frag.fn = "contains" ->
                same /\ operand.t = "S" /\ IsSubstring(operand.v, item[attr].v)
          [] frag.fn = "begins_with" ->
                same /\ operand.t = "S" /\ IsPrefix(operand.v, item[attr].v)
          [] frag.op = "=" -> same /\ item[attr] = operand
          [] frag.op = "<>" -> ~(same /\ item[attr] = operand)
          [] frag.op = "<" ->
                same /\ IF operand.t = "N" THEN item[attr].v < operand.v
                        ELSE operand.t = "S" /\ LexLess(item[attr].v, operand.v)
          [] frag.op = "<=" ->
                same /\ IF operand.t = "N" THEN item[attr].v <= operand.v
                        ELSE operand.t = "S" /\ ~LexLess(operand.v, item[attr].v)
          [] frag.op = ">" ->
                same /\ IF operand.t = "N" THEN item[attr].v > operand.v
                        ELSE operand.t = "S" /\ LexLess(operand.v, item[attr].v)
          [] frag.op = ">=" ->
                same /\ IF operand.t = "N" THEN item[attr].v >= operand.v
                        ELSE operand.t = "S" /\ ~LexLess(item[attr].v, operand.v)

PassesFilter(params, item) ==
    \A i \in 1..Len(params.FilterExpression) :
        EvalFragment(params.FilterExpression[i], params.ExpressionAttributeNames,
                     params.ExpressionAttributeValues, item)

StoreError(msg) == [ok |-> FALSE, error |-> msg]

\* how the store answers one call: "ok" as its contents say, "down" with a
\* failure, and for a query or scan with a result set that is missing
\* ("noSet"), null ("nullSet") or a string ("textSet")
CallEnvs == {"ok", "down"}

QueryEnvs == {"ok", "down", "noSet", "nullSet", "textSet"}

Reply(env, result) == IF env = "down" THEN StoreError("ServiceUnavailable") ELSE result

\* the result set (Items, resources) of an answer
ResultSet(env, list) ==
    CASE env = "noSet" -> Undefined
      [] env = "nullSet" -> Null
      [] env = "textSet" -> Str(<<"x">>)
      [] OTHER -> Arr(list)

\* a key as the client returns and accepts it: {attr: {S: value}}
WireKey(opts, k) ==
    Obj(IF opts.sortKey = ""
        THEN << <<opts.partitionKey, Obj(<< <<"S", k[opts.partitionKey]>> >>)>> >>
        ELSE << <<opts.partitionKey, Obj(<< <<"S", k[opts.partitionKey]>> >>)>>,
                <<opts.sortKey, Obj(<< <<"S", k[opts.sortKey]>> >>)>> >>)

IsWireKey(opts, w) ==
    /\ w.t = "object"
    /\ Len(w.v) = Cardinality(KeyAttrs(opts))
    /\ \A a \in KeyAttrs(opts) :
        /\ HasKey(w, a)
        /\ Get(w, a).t = "object"
        /\ Len(Get(w, a).v) = 1
        /\ Get(Get(w, a), "S").t = "S"
        /\ Get(Get(w, a), "S").v # <<>>

FromWireKey(opts, w) == [a \in KeyAttrs(opts) |-> Get(Get(w, a), "S")]

\* ScanCommand: at most Limit items are read after ExclusiveStartKey, the
\* filter is applied to the items read, and LastEvaluatedKey is the key of
\* the last item read when the scan stopped at the limit.
\* a scan that gives no LastEvaluatedKey with a page the filter shortened
ScanEndingOnShortPage(opts, items, params) ==
    IF ~IsPositiveInt(params.Limit)
    THEN StoreError("ValidationException: Limit")
    ELSE IF params.ExclusiveStartKey # <<>> /\ ~IsWireKey(opts, params.ExclusiveStartKey[1])
    THEN StoreError("ValidationException: ExclusiveStartKey")
    ELSE
      LET all == ScanOrder(opts, items)
          IsAfterStart(it) ==
              \/ params.ExclusiveStartKey = <<>>
              \/ KeyLess(opts, FromWireKey(opts, params.ExclusiveStartKey[1]), KeyOf(opts, it))
          rest == SelectSeq(all, IsAfterStart)
          n == IF Len(rest) < params.Limit.v THEN Len(rest) ELSE params.Limit.v
          read == SubSeq(rest, 1, n)
          Passes(it) == PassesFilter(params, it)
      IN  [ok |-> TRUE,
           error |-> "",
           Items |-> SelectSeq(read, Passes),
           LastEvaluatedKey |->
               IF n = params.Limit.v /\ Len(SelectSeq(read, Passes)) = n THEN <<WireKey(opts, KeyOf(opts, read[n]))>> ELSE <<>>]

Scan(opts, items, params) ==
    IF ~IsPositiveInt(params.Limit)
    THEN StoreError("ValidationException: Limit")
    ELSE IF params.ExclusiveStartKey # <<>> /\ ~IsWireKey(opts, params.ExclusiveStartKey[1])
    THEN StoreError("ValidationException: ExclusiveStartKey")
    ELSE
      LET all == ScanOrder(opts, items)
          IsAfterStart(it) ==
              \/ params.ExclusiveStartKey = <<>>
              \/ KeyLess(opts, FromWireKey(opts, params.ExclusiveStartKey[1]), KeyOf(opts, it))
          rest == SelectSeq(all, IsAfterStart)
          n == IF Len(rest) < params.Limit.v THEN Len(rest) ELSE params.Limit.v
          read == SubSeq(rest, 1, n)
          Passes(it) == PassesFilter(params, it)
      IN  [ok |-> TRUE,
           error |-> "",
           Items |-> SelectSeq(read, Passes),
           LastEvaluatedKey |->
               IF n = params.Limit.v THEN <<WireKey(opts, KeyOf(opts, read[n]))>> ELSE <<>>]

\* GetItemCommand
GetItem(opts, items, key) ==
    IF ~IsKey(opts, key)
    THEN StoreError("ValidationException: Key")
    ELSE LET found == { it \in items : KeyOf(opts, it) = key }
         IN  [ok |-> TRUE, error |-> "",
              Item |-> IF found = {} THEN <<>> ELSE <<CHOOSE it \in found : TRUE>>]

\* PutItemCommand: the item replaces the item of the same key
PutItem(opts, items, item) ==
    IF ~HasKeyAttrs(opts, item)
    THEN [ok |-> FALSE, error |-> "ValidationException: Item", table |-> items]
    ELSE [ok |-> TRUE, error |-> "",
          table |-> { it \in items : KeyOf(opts, it) # KeyOf(opts, item) } \cup {item}]

\* UpdateItemCommand behaving as a put of the key and the assigned attributes
UpdateItemAsPut(opts, items, params) ==
    LET sets == params.UpdateExpression.set
        Target(i) == params.ExpressionAttributeNames[sets[i][1]]
        found == { it \in items : KeyOf(opts, it) = params.Key }
        assigned == [a \in { Target(i) : i \in 1..Len(sets) } |->
                       params.ExpressionAttributeValues[
                           sets[CHOOSE i \in 1..Len(sets) : Target(i) = a][2]]]
        new == assigned @@ params.Key
    IN  IF ~params.UpdateExpression.wellFormed
        THEN [ok |-> FALSE, error |-> "ValidationException: UpdateExpression",
              table |-> items, Attributes |-> <<>>]
        ELSE [ok |-> TRUE, error |-> "",
              table |-> (items \ found) \cup {new}, Attributes |-> <<new>>]

\* UpdateItemCommand with a SET expression and ReturnValues ALL_NEW: the
\* item is created from its key when it does not exist.
UpdateItem(opts, items, params) ==
    LET sets == params.UpdateExpression.set
        Target(i) == params.ExpressionAttributeNames[sets[i][1]]
        wellFormed ==
            /\ IsKey(opts, params.Key)
            /\ params.UpdateExpression.wellFormed
            /\ \A i \in 1..Len(sets) :
                /\ sets[i][1] \in DOMAIN params.ExpressionAttributeNames
                /\ sets[i][2] \in DOMAIN params.ExpressionAttributeValues
                /\ Target(i) \notin KeyAttrs(opts)
            /\ \A i, j \in 1..Len(sets) : i # j => Target(i) # Target(j)
    IN  IF ~wellFormed
        THEN [ok |-> FALSE, error |-> "ValidationException: UpdateExpression",
              table |-> items, Attributes |-> <<>>]
        ELSE LET found == { it \in items : KeyOf(opts, it) = params.Key }
                 old == IF found = {} THEN params.Key ELSE CHOOSE it \in found : TRUE
                 assigned == [a \in { Target(i) : i \in 1..Len(sets) } |->
                                params.ExpressionAttributeValues[
                                    sets[CHOOSE i \in 1..Len(sets) : Target(i) = a][2]]]
                 new == assigned @@ old
             IN  [ok |-> TRUE, error |-> "",
                  table |-> (items \ found) \cup {new}, Attributes |-> <<new>>]

\* DeleteItemCommand: deleting an absent key succeeds
DeleteItem(opts, items, key) ==
    IF ~IsKey(opts, key)
    THEN [ok |-> FALSE, error |-> "ValidationException: Key", table |-> items]
    ELSE [ok |-> TRUE, error |-> "",
          table |-> { it \in items : KeyOf(opts, it) # key }]

-----------------------------------------------------------------------------
(* JSON.stringify and JSON.parse on the token sequence of a JSON text *)

Quote(chars) == "\"" \o Concat(chars) \o "\""

JsonNames == {"id", "userId", "createdAt", "S", "N"}

JsonStrings ==
    { <<"u", "1">>, <<"u", "2">>, <<"u", "3">>, <<"x", "1">>, <<"x", "2">>, <<"b">> }
        \cup { ISO(n).v : n \in 0..9 }

JsonNumbers == 0..3

IsNameToken(tok) == \E a \in JsonNames : Quote(<<a>>) = tok

NameOfToken(tok) == CHOOSE a \in JsonNames : Quote(<<a>>) = tok

IsStringToken(tok) == \E c \in JsonStrings : Quote(c) = tok

StringOfToken(tok) == CHOOSE c \in JsonStrings : Quote(c) = tok

IsNumberToken(tok) == \E n \in JsonNumbers : ToString(n) = tok

NumberOfToken(tok) == CHOOSE n \in JsonNumbers : ToString(n) = tok

\* JSON.stringify writing string values without their quotes
RECURSIVE JSONstringifyBare(_)
JSONstringifyBare(x) ==
    CASE x.t = "object" ->
            <<"{">>
            \o Flatten([i \in 1..Len(x.v) |->
                    (IF i > 1 THEN <<",">> ELSE <<>>)
                    \o <<Quote(<<x.v[i][1]>>), ":">> \o JSONstringifyBare(x.v[i][2])])
            \o <<"}">>
      [] x.t = "S" -> <<Concat(x.v)>>
      [] x.t = "N" -> <<ToString(x.v)>>
      [] x.t = "B" -> <<IF x.v THEN "true" ELSE "false">>
      [] x.t = "null" -> <<"null">>

RECURSIVE JSONstringify(_)
JSONstringify(x) ==
    CASE x.t = "object" ->
            <<"{">>
            \o Flatten([i \in 1..Len(x.v) |->
                    (IF i > 1 THEN <<",">> ELSE <<>>)
                    \o <<Quote(<<x.v[i][1]>>), ":">> \o JSONstringify(x.v[i][2])])
            \o <<"}">>
      [] x.t = "S" -> <<Quote(x.v)>>
      [] x.t = "N" -> <<ToString(x.v)>>
      [] x.t = "B" -> <<IF x.v THEN "true" ELSE "false">>
      [] x.t = "null" -> <<"null">>

SyntaxError == [ok |-> FALSE, val |-> Undefined, rest |-> <<>>]

Parsed(val, rest) == [ok |-> TRUE, val |-> val, rest |-> rest]

IsJsonWhitespace(tok) == tok \in {" ", "\t", "\n"}

IsNotJsonWhitespace(tok) == ~IsJsonWhitespace(tok)

RECURSIVE ParseValue(_), ParseMembers(_, _)
ParseValue(toks) ==
    IF toks = <<>> THEN SyntaxError
    ELSE LET h == Head(toks)
         IN  CASE h = "{" ->
                     IF Len(toks) >= 2 /\ toks[2] = "}"
                     THEN Parsed(Obj(<<>>), SubSeq(toks, 3, Len(toks)))
                     ELSE ParseMembers(Tail(toks), <<>>)
               [] h = "null" -> Parsed(Null, Tail(toks))
               [] h = "true" -> Parsed(Bool(TRUE), Tail(toks))
               [] h = "false" -> Parsed(Bool(FALSE), Tail(toks))
               [] IsNumberToken(h) -> Parsed(Num(NumberOfToken(h)), Tail(toks))
               [] IsStringToken(h) -> Parsed(Str(StringOfToken(h)), Tail(toks))
               [] OTHER -> SyntaxError

\* the members of an object after "{" or ",": name ":" value, then "," or "}"
ParseMembers(toks, acc) ==
    IF Len(toks) < 3 \/ ~IsNameToken(toks[1]) \/ toks[2] # ":"
    THEN SyntaxError
    ELSE LET member == ParseValue(SubSeq(toks, 3, Len(toks)))
             name == NameOfToken(toks[1])
             \* a repeated name keeps its first position and takes the last value
             sofar == IF \E i \in 1..Len(acc) : acc[i][1] = name
                      THEN [i \in 1..Len(acc) |->
                              IF acc[i][1] = name THEN <<name, member.val>> ELSE acc[i]]
                      ELSE Append(acc, <<name, member.val>>)
         IN  IF ~member.ok \/ member.rest = <<>> THEN SyntaxError
             ELSE IF Head(member.rest) = "}" THEN Parsed(Obj(sofar), Tail(member.rest))
             ELSE IF Head(member.rest) = "," THEN ParseMembers(Tail(member.rest), sofar)
             ELSE SyntaxError

JSONparse(text) ==
    LET r == ParseValue(SelectSeq(text, IsNotJsonWhitespace))
    IN  IF r.ok /\ r.rest = <<>> THEN r ELSE SyntaxError

-----------------------------------------------------------------------------
(* Outcomes of a public method invocation *)

\* the method threw: no value is returned
Thrown(msg, calls, items) ==
    [ok |-> FALSE, error |-> msg, calls |-> calls, value |-> <<>>, table |-> items]

\* the method returned value
Return(value, calls, items) ==
    [ok |-> TRUE, error |-> "", calls |-> calls, value |-> value, table |-> items]

Call(cmd, params) == [cmd |-> cmd, input |-> params]

DefaultLimit == 100

-----------------------------------------------------------------------------
(* The key-value facade, src/src/services/cosmos-db.service.ts 94-346 *)

operatorSymbols ==
    [equals |-> "=", not |-> "<>", gt |-> ">", gte |-> ">=", lt |-> "<", lte |-> "<="]

\* prepareValue: the typed container of an operand, or a throw
CanPrepareValue(x) == x.t \in {"S", "N", "NF", "B"}

\* one iteration of the forEach over Object.entries(where): the fragment
\* pushed for the field, or the error thrown
KvCompileField(field, condition, counter) ==
    IF ~Truthy(condition) \/ condition.t \notin {"object", "array"} \/ Len(condition.v) = 0
    THEN [ok |-> FALSE, error |-> "Invalid condition for field"]
    ELSE IF condition.t = "array"
    THEN [ok |-> FALSE, error |-> "Unsupported operator: 0"]
    ELSE
      LET operator == Keys(condition)[1]
          value == Get(condition, operator)
          fieldPlaceholder == "#" \o field
          valuePlaceholder == ":val" \o ToString(counter)
          Pushed(fn, op, text) ==
              [ok |-> TRUE, error |-> "", fn |-> fn, op |-> op, operator |-> operator,
               name |-> fieldPlaceholder, value |-> valuePlaceholder, text |-> text]
      IN  IF isUndefined(value)
          THEN [ok |-> FALSE, error |-> "Value for operator is undefined"]
          ELSE IF ~CanPrepareValue(value)
          THEN [ok |-> FALSE, error |-> "Unsupported value type"]
          ELSE IF operator \in DOMAIN operatorSymbols
          THEN Pushed("cmp", operatorSymbols[operator],
                      fieldPlaceholder \o " " \o operatorSymbols[operator] \o " " \o valuePlaceholder)
          ELSE IF operator = "contains"
          THEN Pushed("contains", "",
                      "contains(" \o fieldPlaceholder \o ", " \o valuePlaceholder \o ")")
          ELSE IF operator = "startsWith"
          THEN Pushed("begins_with", "",
                      "begins_with(" \o fieldPlaceholder \o ", " \o valuePlaceholder \o ")")
          ELSE IF operator = "endsWith"
          THEN Pushed("contains", "",
                      "contains(" \o fieldPlaceholder \o ", " \o valuePlaceholder \o ")")
          ELSE [ok |-> FALSE, error |-> "Unsupported operator"]

\* the where block of findMany with a placeholder counter that never moves
KvCompileWhereStuckCounter(where) ==
    IF ~(Truthy(where) /\ Len(where.v) > 0)
    THEN [ok |-> TRUE, error |-> "", FilterExpression |-> <<>>,
          ExpressionAttributeNames |-> <<>>, ExpressionAttributeValues |-> <<>>]
    ELSE
      LET n == Len(where.v)
          frag == [i \in 1..n |-> KvCompileField(where.v[i][1], where.v[i][2], 0)]
          failed == { i \in 1..n : ~frag[i].ok }
      IN  IF failed # {}
          THEN [ok |-> FALSE,
                error |-> frag[CHOOSE i \in failed : \A j \in failed : i <= j].error,
                FilterExpression |-> <<>>,
                ExpressionAttributeNames |-> <<>>, ExpressionAttributeValues |-> <<>>]
          ELSE [ok |-> TRUE, error |-> "",
                FilterExpression |-> frag,
                ExpressionAttributeNames |->
                    [p \in { frag[i].name : i \in 1..n } |->
                        where.v[CHOOSE i \in 1..n : frag[i].name = p][1]],
                ExpressionAttributeValues |->
                    [p \in { frag[i].value : i \in 1..n } |->
                        Get(where.v[CHOOSE i \in 1..n : frag[i].value = p][2],
                            frag[CHOOSE i \in 1..n : frag[i].value = p].operator)]]

\* the where block of findMany (lines 124-184): FilterExpression,
\* ExpressionAttributeNames and ExpressionAttributeValues, or the error thrown
KvCompileWhere(where) ==
    IF ~(Truthy(where) /\ Len(where.v) > 0)
    THEN [ok |-> TRUE, error |-> "", FilterExpression |-> <<>>,
          ExpressionAttributeNames |-> <<>>, ExpressionAttributeValues |-> <<>>]
    ELSE
      LET n == Len(where.v)
          frag == [i \in 1..n |-> KvCompileField(where.v[i][1], where.v[i][2], i - 1)]
          failed == { i \in 1..n : ~frag[i].ok }
      IN  IF failed # {}
          THEN [ok |-> FALSE,
                error |-> frag[CHOOSE i \in failed : \A j \in failed : i <= j].error,
                FilterExpression |-> <<>>,
                ExpressionAttributeNames |-> <<>>, ExpressionAttributeValues |-> <<>>]
          ELSE [ok |-> TRUE, error |-> "",
                FilterExpression |-> frag,
                ExpressionAttributeNames |->
                    [p \in { frag[i].name : i \in 1..n } |->
                        where.v[CHOOSE i \in 1..n : frag[i].name = p][1]],
                ExpressionAttributeValues |->
                    [p \in { frag[i].value : i \in 1..n } |->
                        Get(where.v[CHOOSE i \in 1..n : frag[i].value = p][2],
                            frag[CHOOSE i \in 1..n : frag[i].value = p].operator)]]

\* FilterExpression as sent: filterExpression.join(' AND ')
FilterText(frags) == Join([i \in 1..Len(frags) |-> frags[i].text], " AND ")

\* Items?.map(...): the optional chain skips a null or undefined Items, and
\* calling .map of anything but a list throws
KvCanMap(set) == isUndefined(set) \/ isNull(set) \/ isArray(set)

KvMapped(set) == IF isArray(set) THEN set.v ELSE <<>>

KvFindMany(opts, items, args, env) ==
    IF Truthy(args.take) /\ ~IsPositiveInt(args.take)
    THEN Thrown("Please make sure take is a positive integer", <<>>, items)
    ELSE
      LET limit == IF isUndefined(args.take) \/ isNull(args.take)
                   THEN Num(DefaultLimit) ELSE args.take
          cursor == IF Truthy(args.nextCursor)
                    THEN JSONparse(args.nextCursor.v)
                    ELSE Parsed(Undefined, <<>>)
          filter == KvCompileWhere(args.where)
          params == [TableName |-> opts.tableName,
                     Limit |-> limit,
                     ExclusiveStartKey |->
                         IF Truthy(args.nextCursor) THEN <<cursor.val>> ELSE <<>>,
                     FilterExpression |-> filter.FilterExpression,
                     ExpressionAttributeNames |-> filter.ExpressionAttributeNames,
                     ExpressionAttributeValues |-> filter.ExpressionAttributeValues]
          result == Reply(env, Scan(opts, items, params))
          calls == <<Call("Scan", params)>>
      IN  IF ~cursor.ok THEN Thrown("SyntaxError", <<>>, items)
          ELSE IF ~filter.ok THEN Thrown(filter.error, <<>>, items)
          ELSE IF ~result.ok
          THEN Thrown("Failed to retrieve items from db. " \o result.error, calls, items)
          \* (result.value.Items?.map(item => unmarshall(item)) as T[]) || []
          ELSE IF ~KvCanMap(ResultSet(env, result.Items))
          THEN Thrown("TypeError", calls, items)
          ELSE Return([items |-> KvMapped(ResultSet(env, result.Items)),
                       nextCursor |->
                           IF result.LastEvaluatedKey # <<>>
                           THEN Str(JSONstringify(result.LastEvaluatedKey[1]))
                           ELSE Undefined],
                      calls, items)

\* findOne returning undefined for an absent item
KvFindOneOrUndefined(opts, items, args, env) ==
    IF ~IdSchema(args.id)
    THEN Thrown("ID should not contain space characters", <<>>, items)
    ELSE
      LET params == [TableName |-> opts.tableName, Key |-> KeyFromId(opts, args.id)]
          result == Reply(env, GetItem(opts, items, params.Key))
          calls == <<Call("GetItem", params)>>
      IN  IF ~result.ok
          THEN Thrown("Failed to retrieve item from db. " \o result.error, calls, items)
          ELSE IF result.Item = <<>>
          THEN Return(Undefined, calls, items)
          ELSE Return(result.Item[1], calls, items)

KvFindOne(opts, items, args, env) ==
    IF ~IdSchema(args.id)
    THEN Thrown("ID should not contain space characters", <<>>, items)
    ELSE
      LET params == [TableName |-> opts.tableName, Key |-> KeyFromId(opts, args.id)]
          result == Reply(env, GetItem(opts, items, params.Key))
          calls == <<Call("GetItem", params)>>
      IN  IF ~result.ok
          THEN Thrown("Failed to retrieve item from db. " \o result.error, calls, items)
          ELSE IF result.Item = <<>>
          THEN Thrown("We cannot find anything using the ID you provided", calls, items)
          ELSE Return(result.Item[1], calls, items)

\* uuid1, uuid2: the two crypto.randomUUID() results; t1, t2: the two clock reads
KvCreate(opts, items, args, uuid1, uuid2, t1, t2, env) ==
    IF ~isObject(args.data)
    THEN Thrown("Please provide an object as payload", <<>>, items)
    ELSE IF objectIsEmpty(args.data)
    THEN Thrown("Please provide an non-empty object as payload", <<>>, items)
    ELSE
      LET id == Get(args.data, "id")
          pk == (opts.partitionKey :> (IF Truthy(id) THEN id ELSE uuid1))
          sk == IF opts.sortKey # ""
                THEN (opts.sortKey :> (IF Truthy(id) THEN id ELSE uuid2))
                ELSE <<>>
          stamps == IF opts.fields.timestamp
                    THEN [createdAt |-> ISO(t1), updatedAt |-> ISO(t2)]
                    ELSE <<>>
          item == stamps @@ ToItem(args.data) @@ sk @@ pk
          params == [TableName |-> opts.tableName, Item |-> item]
          result == Reply(env, PutItem(opts, items, item))
          calls == <<Call("PutItem", params)>>
      IN  IF ~result.ok
          THEN Thrown("Failed to create item in db. " \o result.error, calls, items)
          ELSE Return(item, calls, result.table)

KvUpdate(opts, items, args, t, env) ==
    IF ~IdSchema(args.id)
    THEN Thrown("ID should not contain space characters", <<>>, items)
    ELSE IF ~isObject(args.data)
    THEN Thrown("Please provide an object as payload", <<>>, items)
    ELSE
      LET keys == Keys(args.data)
          n == Len(keys)
          set == [i \in 1..n |-> <<"#" \o keys[i], ":val" \o ToString(i - 1)>>]
                 \o (IF opts.fields.timestamp THEN << <<"#updatedAt", ":updatedAt">> >> ELSE <<>>)
          \* 'SET ' + assignments.join(', ') + ', #updatedAt = :updatedAt'
          updateExpression == [set |-> set, wellFormed |-> n > 0]
          names == (IF opts.fields.timestamp THEN ("#updatedAt" :> "updatedAt") ELSE <<>>)
                   @@ [p \in { "#" \o keys[i] : i \in 1..n } |->
                          keys[CHOOSE i \in 1..n : "#" \o keys[i] = p]]
          values == (IF opts.fields.timestamp THEN (":updatedAt" :> ISO(t)) ELSE <<>>)
                    @@ [p \in { ":val" \o ToString(i - 1) : i \in 1..n } |->
                          args.data.v[CHOOSE i \in 1..n : ":val" \o ToString(i - 1) = p][2]]
          params == [TableName |-> opts.tableName,
                     Key |-> KeyFromId(opts, args.id),
                     UpdateExpression |-> updateExpression,
                     ExpressionAttributeNames |-> names,
                     ExpressionAttributeValues |-> values,
                     ReturnValues |-> "ALL_NEW"]
          result == Reply(env, UpdateItem(opts, items, params))
          calls == <<Call("UpdateItem", params)>>
      IN  IF ~result.ok
          THEN Thrown("Failed to update item. " \o result.error, calls, items)
          ELSE Return(result.Attributes[1], calls, result.table)

KvDelete(opts, items, args, env) ==
    IF ~IdSchema(args.id)
    THEN Thrown("ID should not contain space characters", <<>>, items)
    ELSE
      LET params == [TableName |-> opts.tableName, Key |-> KeyFromId(opts, args.id)]
          result == Reply(env, DeleteItem(opts, items, params.Key))
          calls == <<Call("DeleteItem", params)>>
      IN  IF ~result.ok
          THEN Thrown("Failed to delete item. " \o result.error, calls, items)
          ELSE Return(Undefined, calls, result.table)

-----------------------------------------------------------------------------
(* The SQL-like store behind container.items / container.item(id, id):    *)
(* documents keyed by id, queried by the text the compiler built.          *)

\* the fields a SELECT list returns of one document
Project(select, item) ==
    IF constructFieldSelection(select) = "*"
    THEN item
    ELSE [a \in { select.v[i][1] : i \in { j \in 1..Len(select.v) : select.v[j][2] = Bool(TRUE) } }
                \cap DOMAIN item |-> item[a]]

\* the value a literal of the query text denotes
LiteralValue(value) ==
    IF isBoolean(value) \/ isNumber(value) THEN value ELSE Str(<<TemplateStr(value)>>)

\* the text of a string field, to compare with a quoted literal
TextOf(x) == Concat(x.v)

SqlCompare(op, x, lit) ==
    LET same == x.t = lit.t \/ (x.t = "S" /\ lit.t = "S")
        eq == IF x.t = "S" THEN TextOf(x) = TextOf(lit) ELSE x = lit
    IN  CASE op = "equals" -> same /\ eq
          [] op = "not" -> same /\ ~eq
          [] op = "lt" -> same /\ x.t = "N" /\ x.v < lit.v
          [] op = "lte" -> same /\ x.t = "N" /\ x.v <= lit.v
          [] op = "gt" -> same /\ x.t = "N" /\ x.v > lit.v
          [] op = "gte" -> same /\ x.t = "N" /\ x.v >= lit.v

\* whether the fragment createFilter emits for one entry is well-formed SQL
SqlFragmentParses(filterKey, mode) == ~(filterKey = "endsWith" /\ mode = "INSENSITIVE")

\* the truth of the fragment createFilter emits for one entry on one document
SqlEvalFragment(field, filterKey, mode, value, item) ==
    LET present == Has(item, field)
        x == item[field]
        fold(str) == IF mode = "INSENSITIVE" THEN Lower(str) ELSE str
    IN  CASE filterKey = "contains" ->
                present /\ x.t = "S" /\ value.t = "S" /\ IsSubstring(fold(value.v), fold(x.v))
          [] filterKey = "startsWith" ->
                present /\ x.t = "S" /\ value.t = "S" /\ IsPrefix(fold(value.v), fold(x.v))
          [] filterKey = "endsWith" ->
                present /\ x.t = "S" /\ value.t = "S" /\ IsSuffix(value.v, x.v)
          [] filterKey \in DOMAIN Comparators ->
                present /\ SqlCompare(filterKey, x, LiteralValue(value))
          [] filterKey = "in" ->
                present /\ isArray(value) /\ \E i \in 1..Len(value.v) :
                                SqlCompare("equals", x, LiteralValue(value.v[i]))
          [] filterKey = "notIn" ->
                present /\ isArray(value) /\ \A i \in 1..Len(value.v) :
                                ~SqlCompare("equals", x, LiteralValue(value.v[i]))
          [] OTHER -> TRUE

\* the (field, key, mode, value) entries buildWhereClause compiles
SqlEntries(where) ==
    IF isNull(where) \/ isUndefined(where) \/ objectIsEmpty(where)
    THEN <<>>
    ELSE Flatten([i \in 1..Len(where.v) |->
            [j \in 1..Len(where.v[i][2].v) |->
                [field |-> where.v[i][1], filterKey |-> where.v[i][2].v[j][1],
                 mode |-> ModeOf(where.v[i][2]), value |-> where.v[i][2].v[j][2]]]])

SqlOpts == [tableName |-> "User", partitionKey |-> "id", sortKey |-> "",
            config |-> Undefined, fields |-> [id |-> TRUE, timestamp |-> TRUE]]

\* the continuation token the store hands out after the document of key k
ContinuationToken(k) == Str(<<"+">> \o k["id"].v)

IsContinuationToken(x) == x.t = "S" /\ Len(x.v) >= 2 /\ x.v[1] = "+"

\* items.query(query, {continuationToken, maxItemCount}).fetchNext()
QueryFetchNext(items, dto, request) ==
    LET entries == SqlEntries(dto.where)
        token == request.continuationToken
    IN  IF \E i \in 1..Len(entries) : ~SqlFragmentParses(entries[i].filterKey, entries[i].mode)
        THEN StoreError("BadRequest: syntax error")
        ELSE IF Truthy(token) /\ ~IsContinuationToken(token)
        THEN StoreError("BadRequest: continuation token")
        ELSE
          LET Matches(it) ==
                  \A i \in 1..Len(entries) :
                      SqlEvalFragment(entries[i].field, entries[i].filterKey,
                                      entries[i].mode, entries[i].value, it)
              IsAfterToken(it) ==
                  \/ ~Truthy(token)
                  \/ LexLess(Tail(token.v), it["id"].v)
              rest == SelectSeq(ScanOrder(SqlOpts, items),
                                LAMBDA it : Matches(it) /\ IsAfterToken(it))
              n == IF Len(rest) < request.maxItemCount.v THEN Len(rest)
                   ELSE request.maxItemCount.v
          IN  [ok |-> TRUE, error |-> "",
               resources |-> [i \in 1..n |-> Project(dto.select, rest[i])],
               continuationToken |->
                   IF n < Len(rest) THEN ContinuationToken(KeyOf(SqlOpts, rest[n]))
                   ELSE Undefined]

\* the characters of a quoted literal: those before the closing quote
RECURSIVE UpToQuote(_)
UpToQuote(chars) ==
    IF chars = <<>> \/ Head(chars) = "'" THEN <<>>
    ELSE <<Head(chars)>> \o UpToQuote(Tail(chars))

\* the characters after the closing quote of a literal
RECURSIVE AfterQuote(_)
AfterQuote(chars) ==
    IF chars = <<>> THEN <<>>
    ELSE IF Head(chars) = "'" THEN Tail(chars)
    ELSE AfterQuote(Tail(chars))

StartsWith(chars, prefix) ==
    Len(chars) >= Len(prefix) /\ [i \in 1..Len(prefix) |-> chars[i]] = prefix

Drop(chars, n) == [i \in 1..(Len(chars) - n) |-> chars[i + n]]

\* the condition the store reads in "WHERE c.id = '<id>'": the literal ends
\* at the first quote; what follows it is either nothing or, as far as the
\* store's grammar is modelled, OR '<a>' = '<b>'
ConditionOnId(id) ==
    LET text == id \o <<"'">>
        rest == AfterQuote(text)
        afterOr == Drop(rest, 3)
        afterEq == Drop(AfterQuote(afterOr), 2)
    IN  IF rest = <<>>
        THEN [ok |-> TRUE, literal |-> UpToQuote(text), always |-> FALSE]
        ELSE IF /\ StartsWith(rest, <<"O", "R", "'">>)
                /\ StartsWith(AfterQuote(afterOr), <<"=", "'">>)
                /\ Len(UpToQuote(afterEq)) + 1 = Len(afterEq)
        THEN [ok |-> TRUE, literal |-> UpToQuote(text),
              always |-> UpToQuote(afterOr) = UpToQuote(afterEq)]
        ELSE [ok |-> FALSE, literal |-> <<>>, always |-> FALSE]

\* items.query("... WHERE c.id = '<id>'").fetchAll()
QueryFetchAllById(items, dto) ==
    LET condition == ConditionOnId(dto.id.v)
        found == { it \in items :
                     \/ TextOf(it["id"]) = Concat(condition.literal)
                     \/ condition.always }
    IN  IF ~condition.ok
        THEN StoreError("BadRequest: syntax error")
        ELSE [ok |-> TRUE, error |-> "",
              resources |-> [i \in 1..Len(ScanOrder(SqlOpts, found)) |->
                                 Project(dto.select, ScanOrder(SqlOpts, found)[i])]]

\* items.create(body): the id is generated when the body has none
ItemsCreate(items, body, uuid) ==
    LET doc == IF ~Has(body, "id") \/ body["id"] = Str(<<>>)
               THEN ("id" :> uuid) @@ body
               ELSE body
    IN  IF doc["id"].t # "S"
        THEN [ok |-> FALSE, error |-> "BadRequest: id", table |-> items, resource |-> <<>>]
        ELSE IF \E it \in items : it["id"] = doc["id"]
        THEN [ok |-> FALSE, error |-> "Conflict", table |-> items, resource |-> <<>>]
        ELSE [ok |-> TRUE, error |-> "", table |-> items \cup {doc}, resource |-> <<doc>>]

\* a replace that writes the body whether or not the document exists
ItemReplaceAsUpsert(items, id, body) ==
    [ok |-> TRUE, error |-> "", table |-> { it \in items : it["id"] # id } \cup {body},
     resource |-> <<body>>]

\* item(id, id).replace(body)
ItemReplace(items, id, body) ==
    LET found == { it \in items : it["id"] = id }
    IN  IF found = {}
        THEN [ok |-> FALSE, error |-> "NotFound", table |-> items, resource |-> <<>>]
        ELSE IF ~Has(body, "id") \/ body["id"] # id
        THEN [ok |-> FALSE, error |-> "BadRequest: id", table |-> items, resource |-> <<>>]
        ELSE [ok |-> TRUE, error |-> "", table |-> (items \ found) \cup {body},
              resource |-> <<body>>]

\* item(id, id).delete()
ItemDelete(items, id) ==
    LET found == { it \in items : it["id"] = id }
    IN  IF found = {}
        THEN [ok |-> FALSE, error |-> "NotFound", table |-> items]
        ELSE [ok |-> TRUE, error |-> "", table |-> items \ found]

-----------------------------------------------------------------------------
(* The SQL-like facade, src/unnamed/part_000 334-581 *)

SqlFindMany(items, args, env) ==
    IF ~isNull(args.take) /\ ~isUndefined(args.take) /\ ~IsPositiveInt(args.take)
    THEN Thrown("Please make sure take is a positive integer", <<>>, items)
    ELSE IF buildWhereClauseThrows(args.where)
    THEN Thrown("TypeError", <<>>, items)
    ELSE
      LET request == [query |-> buildQueryFindMany(args),
                      continuationToken |-> args.nextCursor,
                      maxItemCount |-> IF isUndefined(args.take) \/ isNull(args.take)
                                       THEN Num(DefaultLimit) ELSE args.take]
          result == Reply(env, QueryFetchNext(items, args, request))
          resources == ResultSet(env, result.resources)
          calls == <<Call("query.fetchNext", request)>>
      IN  IF ~result.ok
          THEN Thrown("Failed to retrieve items from db. " \o result.error, calls, items)
          ELSE IF isUndefined(resources)
          THEN Return([items |-> <<>>, nextCursor |-> result.continuationToken], calls, items)
          ELSE IF ~isArray(resources)
          THEN Thrown("Retrieved data from db, but received a non-list instead of a list of items",
                      calls, items)
          ELSE Return([items |-> resources.v, nextCursor |-> result.continuationToken],
                      calls, items)

\* args: [id, select]
SqlFindOne(items, args, env) ==
    IF ~IdSchema(args.id)
    THEN Thrown("ID should not contain space characters", <<>>, items)
    ELSE
      LET request == [query |-> buildQueryFindOne(args), maxItemCount |-> Num(1)]
          result == Reply(env, QueryFetchAllById(items, args))
          calls == <<Call("query.fetchAll", request)>>
      IN  IF ~result.ok
          THEN Thrown("Failed to retrieve item form db. " \o result.error, calls, items)
          ELSE IF isEmptyArray(result.resources)
          THEN Thrown("We cannot find anything using the ID you provided", calls, items)
          ELSE Return(result.resources[1], calls, items)

SqlCreate(items, args, uuid, env) ==
    IF ~isObject(args.data)
    THEN Thrown("Please provide an object as payload", <<>>, items)
    ELSE IF objectIsEmpty(args.data)
    THEN Thrown("Please provide an non-empty object as payload", <<>>, items)
    ELSE
      LET result == Reply(env, ItemsCreate(items, ToItem(args.data), uuid))
          calls == <<Call("items.create", [body |-> ToItem(args.data)])>>
      IN  IF ~result.ok
          THEN Thrown("Failed to create item in db. " \o result.error, calls, items)
          ELSE Return(result.resource[1], calls, result.table)

\* update and delete up to their existence check: the checks on the
\* arguments and the findOne({where, select: {id: true}}) call
SqlPrecheck(items, args, op, env) ==
    IF ~IdSchema(args.id)
    THEN Thrown("ID should not contain space characters", <<>>, items)
    ELSE IF op = "update" /\ ~isObject(args.data)
    THEN Thrown("Please provide an object as payload", <<>>, items)
    ELSE IF op = "update" /\ objectIsEmpty(args.data)
    THEN Thrown("Please provide an non-empty object as payload", <<>>, items)
    ELSE
      LET checkItemInDb ==
              SqlFindOne(items, [id |-> args.id, select |-> Obj(<< <<"id", Bool(TRUE)>> >>)], env)
      IN  IF ~checkItemInDb.ok
          THEN Thrown("Failed to " \o op \o " item in db. The item cannot be found.",
                      checkItemInDb.calls, items)
          ELSE checkItemInDb

\* the rest of update: replace({...existingItem, ...data})
SqlReplace(items, args, existingItem, calls, env) ==
    LET body == ToItem(args.data) @@ existingItem
        result == Reply(env, ItemReplace(items, args.id, body))
        all == Append(calls, Call("item.replace", [id |-> args.id, body |-> body]))
    IN  IF ~result.ok
        THEN Thrown("Failed to update item. " \o result.error, all, items)
        ELSE Return(result.resource[1], all, result.table)

\* the rest of delete, reporting success without asking the store
SqlRemoveNothing(items, args, calls, env) ==
    Return(Undefined, Append(calls, Call("item.delete", [id |-> args.id])), items)

\* the rest of delete
SqlRemove(items, args, calls, env) ==
    LET result == Reply(env, ItemDelete(items, args.id))
        all == Append(calls, Call("item.delete", [id |-> args.id]))
    IN  IF ~result.ok
        THEN Thrown("Failed to delete item. " \o result.error, all, items)
        ELSE Return(Undefined, all, result.table)

-----------------------------------------------------------------------------
(* Models and the arguments callers pass *)

\* createModel({tableName, partitionKey, sortKey, options: {fields}})
\* the constructor: fields is defaultFields, {id: b, timestamp: b} for a
\* boolean option, {...defaultFields, ...options.fields} for an object
ResolveFields(given) ==
    IF isUndefined(given) THEN [id |-> TRUE, timestamp |-> TRUE]
    ELSE IF isBoolean(given) THEN [id |-> given.v, timestamp |-> given.v]
    ELSE [id |-> IF HasKey(given, "id") THEN Get(given, "id").v ELSE TRUE,
          timestamp |-> IF HasKey(given, "timestamp") THEN Get(given, "timestamp").v ELSE TRUE]

\* the model configurations: partitionKey and the fields option as given
ModelConfigs ==
    { [partitionKey |-> "id", fields |-> Undefined],
      [partitionKey |-> "id", fields |-> Bool(FALSE)],
      [partitionKey |-> "userId", fields |-> Obj(<< <<"timestamp", Bool(FALSE)>> >>)] }

KvModels ==
    { [tableName |-> "Users", partitionKey |-> c.partitionKey, sortKey |-> "",
       config |-> c.fields, fields |-> ResolveFields(c.fields)] : c \in ModelConfigs }

\* models with a sort key: one named as no payload attribute is, and the
\* README's sortKey 'createdAt' with fields: false
SortedModelConfigs ==
    { [partitionKey |-> "id", sortKey |-> "sk", fields |-> Undefined],
      [partitionKey |-> "id", sortKey |-> "createdAt", fields |-> Bool(FALSE)] }

KvSortedModels ==
    { [tableName |-> "Posts", partitionKey |-> c.partitionKey, sortKey |-> c.sortKey,
       config |-> c.fields, fields |-> ResolveFields(c.fields)] : c \in SortedModelConfigs }

ValidIds == { Str(<<"u", "1">>), Str(<<"u", "2">>) }

InvalidIds == { Str(<<>>), Str(<<"u", " ", "1">>) }

Ids == ValidIds \cup InvalidIds

CreatePayloads ==
    { Obj(<< <<"firstName", Str(<<"b">>)>> >>),
      Obj(<< <<"id", Str(<<"u", "1">>)>>, <<"firstName", Str(<<"N", "a">>)>>,
             <<"age", Num(20)>> >>),
      Obj(<<>>),
      Null }

UpdatePayloads ==
    { Obj(<< <<"firstName", Str(<<"a">>)>> >>),
      Obj(<<>>),
      Null }

FindOneArgs == { [id |-> id, select |-> Undefined] : id \in Ids }

UpdateArgs == { [id |-> id, data |-> d] : id \in Ids, d \in UpdatePayloads }

CreateArgs == { [data |-> d] : d \in CreatePayloads }

Takes == {Undefined, NumHalf(1)} \cup { Num(n) : n \in (-1)..MaxTake }

FindManyArgsOf(wheres, takes, cursors) ==
    { [where |-> w, take |-> t, nextCursor |-> c, select |-> Undefined, orderBy |-> Undefined] :
        w \in wheres, t \in takes, c \in cursors }

\* the basic calls of the CRUD specification: a first page, with or without take
BasicFindManyArgs == FindManyArgsOf({Undefined}, {Undefined, Num(1)}, {Undefined})

-----------------------------------------------------------------------------
(* The public methods as steps of one model instance *)

NoCall ==
    [op |-> "none", args |-> <<>>, ok |-> TRUE, error |-> "", calls |-> <<>>,
     answers |-> <<>>, value |-> <<>>, prev |-> {}]

\* envs: how the store answered the calls, in call order
Completed(op, args, r, prev, envs) ==
    [op |-> op, args |-> args, ok |-> r.ok, error |-> r.error, calls |-> r.calls,
     answers |-> [i \in 1..Len(r.calls) |-> envs[i]],
     value |-> r.value, prev |-> prev]

ClockIsRead == backend = "kv" /\ options.fields.timestamp

\* the instants a second clock read may return after a first read of now
LaterReads == IF ClockIsRead /\ now < MaxClock THEN {now, now + 1} ELSE {now}

FreeUUIDs == { u \in UUIDs : \A it \in table : \A a \in DOMAIN it : it[a] # u }

Init ==
    /\ backend \in {"kv", "sql"}
    /\ options \in IF backend = "kv" THEN KvModels ELSE {SqlOpts}
    /\ table = {}
    /\ now = 0
    /\ pending = <<>>
    /\ last = NoCall
    /\ input = [fn |-> "none", arg |-> Undefined]
    /\ output = NotCalled

Tick ==
    /\ ClockIsRead
    /\ now < MaxClock
    /\ now' = now + 1
    /\ UNCHANGED <<backend, options, table, pending, last, input, output>>

FindManyWith(argset, envs) ==
    /\ pending = <<>>
    /\ \E args \in argset, env \in envs :
        LET r == IF backend = "kv" THEN KvFindMany(options, table, args, env)
                 ELSE SqlFindMany(table, args, env)
        IN  last' = Completed("findMany", args, r, table, <<env>>)
    /\ UNCHANGED <<backend, options, table, now, pending, input, output>>

FindOneWith(argset, envs) ==
    /\ pending = <<>>
    /\ \E args \in argset, env \in envs :
        LET r == IF backend = "kv" THEN KvFindOne(options, table, args, env)
                 ELSE SqlFindOne(table, args, env)
        IN  last' = Completed("findOne", args, r, table, <<env>>)
    /\ UNCHANGED <<backend, options, table, now, pending, input, output>>

KvCreateUnder(envs) ==
    /\ backend = "kv"
    /\ \E args \in CreateArgs, uuid1, uuid2 \in FreeUUIDs, t2 \in LaterReads, env \in envs :
        /\ uuid1 # uuid2
        /\ LET r == KvCreate(options, table, args, uuid1, uuid2, now, t2, env)
           IN  /\ last' = Completed("create", args, r, table, <<env>>)
               /\ table' = r.table
               /\ now' = IF r.calls = <<>> THEN now ELSE t2
    /\ UNCHANGED <<backend, options, pending, input, output>>

KvUpdateUnder(envs) ==
    /\ backend = "kv"
    /\ \E args \in UpdateArgs, env \in envs :
        LET r == KvUpdate(options, table, args, now, env)
        IN  /\ last' = Completed("update", args, r, table, <<env>>)
            /\ table' = r.table
    /\ UNCHANGED <<backend, options, now, pending, input, output>>

KvDeleteUnder(envs) ==
    /\ backend = "kv"
    /\ \E args \in FindOneArgs, env \in envs :
        LET r == KvDelete(options, table, args, env)
        IN  /\ last' = Completed("delete", args, r, table, <<env>>)
            /\ table' = r.table
    /\ UNCHANGED <<backend, options, now, pending, input, output>>

SqlCreateUnder(envs) ==
    /\ backend = "sql"
    /\ pending = <<>>
    /\ \E args \in CreateArgs, uuid \in FreeUUIDs, env \in envs :
        LET r == SqlCreate(table, args, uuid, env)
        IN  /\ last' = Completed("create", args, r, table, <<env>>)
            /\ table' = r.table
    /\ UNCHANGED <<backend, options, now, pending, input, output>>

\* update or delete runs up to its existence check; when the check passes
\* the method is suspended on its second store call
SqlBegin(op, argset, envs) ==
    /\ backend = "sql"
    /\ pending = <<>>
    /\ \E args \in argset, env \in envs :
        LET r == SqlPrecheck(table, args, op, env)
        IN  IF r.ok
            THEN /\ pending' = << [op |-> op, args |-> args, existingItem |-> r.value,
                                   calls |-> r.calls, answers |-> <<env>>] >>
                 /\ UNCHANGED last
            ELSE /\ last' = Completed(op, args, r, table, <<env>>)
                 /\ UNCHANGED pending
    /\ UNCHANGED <<backend, options, table, now, input, output>>

SqlUpdateFinishUnder(envs) ==
    /\ pending # <<>>
    /\ pending[1].op = "update"
    /\ \E env \in envs :
        LET r == SqlReplace(table, pending[1].args, pending[1].existingItem,
                            pending[1].calls, env)
        IN  /\ last' = Completed("update", pending[1].args, r, table,
                                 Append(pending[1].answers, env))
            /\ table' = r.table
    /\ pending' = <<>>
    /\ UNCHANGED <<backend, options, now, input, output>>

SqlDeleteFinishUnder(envs) ==
    /\ pending # <<>>
    /\ pending[1].op = "delete"
    /\ \E env \in envs :
        LET r == SqlRemove(table, pending[1].args, pending[1].calls, env)
        IN  /\ last' = Completed("delete", pending[1].args, r, table,
                                 Append(pending[1].answers, env))
            /\ table' = r.table
    /\ pending' = <<>>
    /\ UNCHANGED <<backend, options, now, input, output>>

\* the store answering every call from its contents
Up == {"ok"}

FindMany == FindManyWith(BasicFindManyArgs, Up)

FindOne == FindOneWith(FindOneArgs, Up)

KvCreateStep == KvCreateUnder(Up)

KvUpdateStep == KvUpdateUnder(Up)

KvDeleteStep == KvDeleteUnder(Up)

SqlCreateStep == SqlCreateUnder(Up)

SqlUpdateBegin == SqlBegin("update", UpdateArgs, Up)

SqlDeleteBegin == SqlBegin("delete", FindOneArgs, Up)

SqlUpdateFinish == SqlUpdateFinishUnder(Up)

SqlDeleteFinish == SqlDeleteFinishUnder(Up)

Next ==
    \/ Tick
    \/ FindMany
    \/ FindOne
    \/ KvCreateStep
    \/ KvUpdateStep
    \/ KvDeleteStep
    \/ SqlCreateStep
    \/ SqlUpdateBegin
    \/ SqlDeleteBegin
    \/ SqlUpdateFinish
    \/ SqlDeleteFinish

Spec == Init /\ [][Next]_vars

-----------------------------------------------------------------------------
(* The same methods against a store that may fail a call, may answer a    *)
(* query with an odd result set, and serves other callers meanwhile       *)

\* another caller's delete of a record runs from its existence check to its
\* item(id, id).delete() while this caller's update or delete is suspended
OtherCallerDeletes ==
    /\ backend = "sql"
    /\ pending # <<>>
    /\ \E id \in ValidIds :
        LET check == SqlPrecheck(table, [id |-> id], "delete", "ok")
            r == SqlRemove(table, [id |-> id], check.calls, "ok")
        IN  /\ check.ok
            /\ r.ok
            /\ table' = r.table
    /\ UNCHANGED <<backend, options, now, pending, last, input, output>>

NextEnv ==
    \/ Tick
    \/ FindManyWith(BasicFindManyArgs, QueryEnvs)
    \/ FindOneWith(FindOneArgs, CallEnvs)
    \/ KvCreateUnder(CallEnvs)
    \/ KvUpdateUnder(CallEnvs)
    \/ KvDeleteUnder(CallEnvs)
    \/ SqlCreateUnder(CallEnvs)
    \/ SqlBegin("update", UpdateArgs, CallEnvs)
    \/ SqlBegin("delete", FindOneArgs, CallEnvs)
    \/ SqlUpdateFinishUnder(CallEnvs)
    \/ SqlDeleteFinishUnder(CallEnvs)
    \/ OtherCallerDeletes

SpecEnv == Init /\ [][NextEnv]_vars

-----------------------------------------------------------------------------
(* The key-value methods on models with and without a sort key *)

InitKeys ==
    /\ backend = "kv"
    /\ options \in KvModels \cup KvSortedModels
    /\ table = {}
    /\ now = 0
    /\ pending = <<>>
    /\ last = NoCall
    /\ input = [fn |-> "none", arg |-> Undefined]
    /\ output = NotCalled

NextKeys ==
    \/ Tick
    \/ FindOne
    \/ KvCreateStep
    \/ KvUpdateStep
    \/ KvDeleteStep

SpecKeys == InitKeys /\ [][NextKeys]_vars

-----------------------------------------------------------------------------
(* findMany on a table that earlier create calls filled *)

SeedPayloads ==
    << Obj(<< <<"id", Str(<<"u", "1">>)>>, <<"firstName", Str(<<"N", "a">>)>>,
              <<"lastName", Str(<<"b", "a", "n">>)>>, <<"age", Num(10)>> >>),
       Obj(<< <<"id", Str(<<"u", "2">>)>>, <<"firstName", Str(<<"a", "n">>)>>,
              <<"lastName", Str(<<"a", "n", "b">>)>>, <<"age", Num(20)>> >>),
       Obj(<< <<"id", Str(<<"u", "3">>)>>, <<"firstName", Str(<<"N", "a", "b">>)>>,
              <<"lastName", Str(<<"b", "A", "N">>)>>, <<"age", Num(30)>> >>) >>

\* the table after create({data}) of each payload in turn
RECURSIVE KvSeed(_, _)
KvSeed(opts, payloads) ==
    IF payloads = <<>> THEN {}
    ELSE KvCreate(opts, KvSeed(opts, SubSeq(payloads, 1, Len(payloads) - 1)),
                  [data |-> payloads[Len(payloads)]],
                  Str(<<"x", "1">>), Str(<<"x", "2">>), 0, 0, "ok").table

RECURSIVE SqlSeed(_)
SqlSeed(payloads) ==
    IF payloads = <<>> THEN {}
    ELSE SqlCreate(SqlSeed(SubSeq(payloads, 1, Len(payloads) - 1)),
                   [data |-> payloads[Len(payloads)]], Str(<<"x", "1">>), "ok").table

QueryWheres ==
    { Undefined,
      Obj(<<>>),
      Obj(<< <<"age", Obj(<< <<"gte", Num(20)>> >>)>> >>),
      Obj(<< <<"age", Obj(<< <<"gte", Num(20)>>, <<"lte", Num(20)>> >>)>> >>),
      Obj(<< <<"firstName", Obj(<< <<"contains", Str(<<"a">>)>> >>)>> >>),
      Obj(<< <<"lastName", Obj(<< <<"endsWith", Str(<<"a", "n">>)>> >>)>> >>),
      Obj(<< <<"lastName", Obj(<< <<"endsWith", Str(<<"a", "n">>)>>,
                                  <<"mode", Str(<<"INSENSITIVE">>)>> >>)>> >>),
      Obj(<< <<"firstName", Obj(<< <<"mode", Str(<<"INSENSITIVE">>)>>,
                                   <<"startsWith", Str(<<"n">>)>> >>)>> >>),
      Obj(<< <<"firstName", Obj(<< <<"startsWith", Str(<<"N">>)>> >>)>>,
             <<"age", Obj(<< <<"lte", Num(20)>> >>)>> >>),
      Obj(<< <<"firstName", Obj(<<>>)>> >>),
      Obj(<< <<"firstName", Obj(<< <<"like", Str(<<"a">>)>> >>)>> >>),
      Obj(<< <<"age", Obj(<< <<"in", Arr(<<Num(20), Num(30)>>)>> >>)>> >>),
      Obj(<< <<"firstName", Obj(<< <<"notIn", Arr(<<Str(<<"N", "a">>), Str(<<"a", "n">>)>>)>> >>)>> >>),
      Obj(<< <<"age", Obj(<< <<"in", Null>> >>)>> >>),
      Obj(<< <<"age", Obj(<< <<"in", Num(20)>> >>)>> >>) }

\* a key-value cursor that JSON.parse accepts, written with a space in it
SpacedCursor ==
    Str(<<"{", " ", Quote(<<"id">>), ":", "{", Quote(<<"S">>), ":", Quote(<<"u", "1">>), "}", "}">>)

\* the nextCursor strings a caller supplies on its own; the SQL-like facade
\* hands the string to the SDK as it is, and src does not say what the SDK
\* does with '', so '' is supplied to the key-value facade only
GivenCursors ==
    { Undefined, SpacedCursor, Str(<<"x">>), Str(<<"+", "u", "1">>) }
        \cup (IF backend = "kv" THEN { Str(<<>>) } ELSE {})

\* a where filtering by a number, for the calls that supply a cursor
CursorWheres == { Undefined, Obj(<< <<"age", Obj(<< <<"gte", Num(20)>> >>)>> >>) }

\* first pages for every where and take, and supplied cursors for two wheres
QueryFindManyArgs ==
    FindManyArgsOf(QueryWheres, Takes, {Undefined})
        \cup FindManyArgsOf(CursorWheres, Takes, GivenCursors)

InitQuery ==
    /\ backend \in {"kv", "sql"}
    /\ options \in IF backend = "kv" THEN KvModels ELSE {SqlOpts}
    /\ table = IF backend = "kv" THEN KvSeed(options, SeedPayloads) ELSE SqlSeed(SeedPayloads)
    /\ now = 0
    /\ pending = <<>>
    /\ last = NoCall
    /\ input = [fn |-> "none", arg |-> Undefined]
    /\ output = NotCalled

\* the select maps of the queries: one field, and a true field before a false one
QuerySelects ==
    { Obj(<< <<"firstName", Bool(TRUE)>> >>),
      Obj(<< <<"id", Bool(TRUE)>>, <<"age", Bool(FALSE)>> >>) }

\* findMany with a select, alone or on the field the where filters
SelectingFindManyArgs ==
    { [where |-> Undefined, take |-> Undefined, nextCursor |-> Undefined,
       select |-> x, orderBy |-> Undefined] : x \in QuerySelects }
        \cup { [where |-> Obj(<< <<"firstName", Obj(<< <<"contains", Str(<<"a">>)>> >>)>> >>),
                take |-> Undefined, nextCursor |-> Undefined,
                select |-> Obj(<< <<"firstName", Bool(TRUE)>> >>), orderBy |-> Undefined] }

\* ids IdSchema accepts that hold a single quote: one that goes on with a
\* condition of its own, one that leaves the query malformed
QuotedIds ==
    { Str(<<"u", "9", "'", "O", "R", "'", "1", "'", "=", "'", "1">>),
      Str(<<"u", "'", "1">>) }

QueryFindOneArgs ==
    { [id |-> id, select |-> x] : id \in ValidIds \cup QuotedIds, x \in {Undefined} \cup QuerySelects }

QueryOne == FindOneWith(QueryFindOneArgs, Up)

\* the page after the one the caller just received, when it received a cursor
NextPageArgs ==
    IF last.op = "findMany" /\ last.ok /\ ~isUndefined(last.value.nextCursor)
    THEN { [last.args EXCEPT !.nextCursor = last.value.nextCursor] }
    ELSE {}

\* a findMany of the caller's own, or one that goes on from the last page
QueryPage == FindManyWith(QueryFindManyArgs \cup SelectingFindManyArgs \cup NextPageArgs, Up)

NextQuery == QueryPage \/ QueryOne

SpecQuery == InitQuery /\ [][NextQuery]_vars

-----------------------------------------------------------------------------
(* A caller paging through the key-value findMany: the same where and     *)
(* take on every call, each nextCursor fed into the next call, until a    *)
(* page comes without one                                                 *)

PagingArgs == FindManyArgsOf(QueryWheres, {Undefined} \cup { Num(n) : n \in 1..MaxTake }, {Undefined})

InitPaging ==
    /\ backend = "kv"
    /\ options \in KvModels
    /\ table = KvSeed(options, SeedPayloads)
    /\ now = 0
    /\ pending = <<>>
    /\ last = NoCall
    /\ input \in { [fn |-> "paginate", arg |-> a] : a \in PagingArgs }
    /\ output = [done |-> FALSE, val |-> <<>>, pages |-> <<>>]

\* one call of the loop; output gathers the items and the page sizes
PageStep ==
    /\ input.fn = "paginate"
    /\ ~output.done
    /\ LET args == IF last.op = "none" THEN input.arg
                   ELSE [input.arg EXCEPT !.nextCursor = last.value.nextCursor]
           r == KvFindMany(options, table, args, "ok")
       IN  /\ last' = Completed("findMany", args, r, table, <<"ok">>)
           /\ output' = IF r.ok
                         THEN [done |-> isUndefined(r.value.nextCursor),
                               val |-> output.val \o r.value.items,
                               pages |-> Append(output.pages, Len(r.value.items))]
                         ELSE [output EXCEPT !.done = TRUE]
    /\ UNCHANGED <<backend, options, table, now, pending, input>>

\* PageStep can be taken exactly in these states
PagingCanCall == input.fn = "paginate" /\ ~output.done

\* the caller goes on calling while it holds a cursor: weak fairness of
\* PageStep, WF_vars(PageStep), with ENABLED <<PageStep>>_vars written
\* out as PagingCanCall
SpecPaging ==
    /\ InitPaging
    /\ [][PageStep]_vars
    /\ ([]<>(~PagingCanCall) \/ []<><<PageStep>>_vars)

-----------------------------------------------------------------------------
(* C2 *)

IsOperatorEntry(e) == e[1] # "mode"

\* one fragment per (field, operator) entry, fields and operators in map order
OperatorFragments(where) ==
    Flatten([i \in 1..Len(where.v) |->
        LET field == where.v[i][1]
            cond == where.v[i][2]
            ops == SelectSeq(cond.v, IsOperatorEntry)
        IN  [j \in 1..Len(ops) |-> createFilter(field, ops[j][1], ModeOf(cond), ops[j][2])]])

WhereIsAbsentOrEmpty(where) == isUndefined(where) \/ isNull(where) \/ objectIsEmpty(where)

-----------------------------------------------------------------------------
(* C1 *)

IsUpdateOfExisting ==
    /\ last.op = "update"
    /\ last.ok
    /\ \E it \in last.prev : it["id"] = last.args.id

\* C1: after a successful SQL-like update of an existing record the stored
\* record equals the previously stored record with exactly the fields named
\* in data overwritten; every field not named in data keeps its value.
C1_UpdateMergesOverStoredRecord ==
    (backend = "sql" /\ IsUpdateOfExisting) =>
        \A old \in last.prev :
            old["id"] = last.args.id =>
                (ToItem(last.args.data) @@ old) \in table

-----------------------------------------------------------------------------
(* C3, C4, C5: the reference meaning of a where map *)

\* the (field, operator, mode, value) entries of a where map, mode keys left out
Predicates(where) ==
    SelectSeq(SqlEntries(where), LAMBDA e : e.filterKey # "mode")

\* what an operator means for the value x of the field
Means(e, x) ==
    LET fold(str) == IF e.mode = "INSENSITIVE" THEN Lower(str) ELSE str
        text == x.t = "S" /\ e.value.t = "S"
        number == x.t = "N" /\ e.value.t = "N"
    IN  CASE e.filterKey = "contains" -> text /\ IsSubstring(fold(e.value.v), fold(x.v))
          [] e.filterKey = "startsWith" -> text /\ IsPrefix(fold(e.value.v), fold(x.v))
          [] e.filterKey = "endsWith" -> text /\ IsSuffix(fold(e.value.v), fold(x.v))
          [] e.filterKey = "equals" -> x = e.value
          [] e.filterKey = "not" -> x # e.value
          [] e.filterKey = "lt" -> number /\ x.v < e.value.v
          [] e.filterKey = "lte" -> number /\ x.v <= e.value.v
          [] e.filterKey = "gt" -> number /\ x.v > e.value.v
          [] e.filterKey = "gte" -> number /\ x.v >= e.value.v
          [] e.filterKey = "in" ->
                isArray(e.value) /\ \E i \in 1..Len(e.value.v) : x = e.value.v[i]
          [] e.filterKey = "notIn" ->
                isArray(e.value) /\ \A i \in 1..Len(e.value.v) : x # e.value.v[i]
          [] OTHER -> FALSE

Satisfies(where, item) ==
    \A i \in 1..Len(Predicates(where)) :
        /\ Has(item, Predicates(where)[i].field)
        /\ Means(Predicates(where)[i], item[Predicates(where)[i].field])

IsFindMany == last.op = "findMany"

\* C3: the FilterExpression key-value findMany sends holds one fragment for
\* every operator entry, other than mode, of every field of where.
C3_OneFragmentPerOperatorEntry ==
    (backend = "kv" /\ IsFindMany /\ last.calls # <<>>) =>
        Len(last.calls[1].input.FilterExpression) = Len(Predicates(last.args.where))

\* C4: every item key-value findMany returns satisfies every predicate of
\* the where map under its reference meaning.
C4_ReturnedItemsSatisfyWhere ==
    (backend = "kv" /\ IsFindMany /\ last.ok) =>
        \A i \in 1..Len(last.value.items) :
            Satisfies(last.args.where, last.value.items[i])

\* C5: when take is valid and more than take items match, findMany returns
\* exactly take items and a nextCursor that is not undefined, with or
\* without a where filter.
C5_FullPageAndCursor ==
    (/\ IsFindMany
     /\ IsPositiveInt(last.args.take)
     /\ isUndefined(last.args.nextCursor)
     /\ Cardinality({ it \in table : Satisfies(last.args.where, it) }) > last.args.take.v) =>
        /\ last.ok
        /\ Len(last.value.items) = last.args.take.v
        /\ ~isUndefined(last.value.nextCursor)


-----------------------------------------------------------------------------
(* C6, C7: cursors *)

\* the native tokens the store of the current backend can hand out
NativeTokens ==
    IF backend = "kv"
    THEN { WireKey(options, KeyOf(options, it)) : it \in table }
    ELSE { ContinuationToken(KeyOf(SqlOpts, it)) : it \in table }

\* the token the store returned to the last findMany call
TokenReturned ==
    IF backend = "kv"
    THEN Scan(options, table, last.calls[1].input).LastEvaluatedKey
    ELSE LET t == QueryFetchNext(table, last.args, last.calls[1].input).continuationToken
         IN  IF isUndefined(t) THEN <<>> ELSE <<t>>

\* the token the last findMany call sent to the store
TokenSent ==
    IF backend = "kv"
    THEN last.calls[1].input.ExclusiveStartKey
    ELSE IF isUndefined(last.calls[1].input.continuationToken) THEN <<>>
         ELSE <<last.calls[1].input.continuationToken>>

encode(t) == IF backend = "kv" THEN Str(JSONstringify(t)) ELSE t

CanDecode(x) == x.t = "S" /\ (backend = "kv" => JSONparse(x.v).ok)

decode(x) == IF backend = "kv" THEN JSONparse(x.v).val ELSE x

\* decode(encode(t)) = t: a call given the cursor made from t sends t, and
\* the cursor a call returns is made from the token the store returned
TokenSurvivesCursor ==
    /\ \A t \in NativeTokens :
        (last.args.nextCursor = encode(t) /\ last.calls # <<>>) => TokenSent = <<t>>
    /\ (last.ok /\ TokenReturned # <<>>) =>
        /\ last.value.nextCursor = encode(TokenReturned[1])
        /\ CanDecode(last.value.nextCursor)
        /\ decode(last.value.nextCursor) = TokenReturned[1]
    /\ (last.ok /\ TokenReturned = <<>>) => isUndefined(last.value.nextCursor)

\* C6 as stated: decode(encode(t)) = t for every native token t, and
\* encode(decode(x)) = x for every syntactically valid cursor string x.
C6_EveryValidCursorRoundTrips ==
    IsFindMany =>
        /\ TokenSurvivesCursor
        /\ CanDecode(last.args.nextCursor) =>
            encode(decode(last.args.nextCursor)) = last.args.nextCursor

\* C6 amended: decode(encode(t)) = t for every native token t (the token
\* sent on the next call equals the token the cursor was made from), and
\* encode(decode(x)) = x for every cursor string x that findMany returned.
C6_ReturnedCursorRoundTrips ==
    IsFindMany =>
        /\ TokenSurvivesCursor
        /\ (last.ok /\ ~isUndefined(last.value.nextCursor)) =>
            /\ CanDecode(last.value.nextCursor)
            /\ encode(decode(last.value.nextCursor)) = last.value.nextCursor

\* a second page asked with the cursor of the first, itself returning a cursor
C6_Witness ==
    /\ backend = "kv"
    /\ IsFindMany
    /\ last.ok
    /\ last.args.nextCursor \in { encode(t) : t \in NativeTokens }
    /\ TokenSent # <<>>
    /\ Len(last.value.items) = 1
    /\ ~isUndefined(last.value.nextCursor)
    /\ last.value.nextCursor # last.args.nextCursor

DecodesToToken(x) ==
    IF backend = "kv"
    THEN JSONparse(x.v).ok /\ IsWireKey(options, JSONparse(x.v).val)
    ELSE IsContinuationToken(x)

\* C7: findMany given a nextCursor string that does not decode to a native
\* pagination token fails with an error; it never returns a page.
C7_MalformedCursorFails ==
    (IsFindMany /\ last.args.nextCursor.t = "S" /\ ~DecodesToToken(last.args.nextCursor)) =>
        ~last.ok

-----------------------------------------------------------------------------
(* C8, C9, C10: argument checks *)

HasBadId ==
    /\ last.op \in {"findOne", "update", "delete"}
    /\ last.args.id.t = "S"
    /\ \/ last.args.id.v = <<>>
       \/ \E i \in 1..Len(last.args.id.v) : last.args.id.v[i] \in Whitespace

FailedBeforeStore == ~last.ok /\ last.calls = <<>>

\* C8: on both backends findOne, update and delete given an id that is the
\* empty string or contains a whitespace character fail before any store
\* call, and the store is left unchanged.
C8_BadIdFailsBeforeStore ==
    HasBadId => (FailedBeforeStore /\ table = last.prev)

\* an update of a stored record's id with a space in it, on a filled table
C8_Witness ==
    /\ HasBadId
    /\ last.op = "update"
    /\ isObject(last.args.data) /\ ~objectIsEmpty(last.args.data)
    /\ last.args.id.v # <<>>
    /\ table # {}
    /\ ~last.ok

\* C9: on both backends findMany with a take that is present and is not a
\* positive integer fails before any store call; when take is absent the
\* store is asked for at most 100 items.
C9_BadTakeFailsBeforeStore ==
    IsFindMany =>
        /\ (~isUndefined(last.args.take) /\ ~IsPositiveInt(last.args.take)) => FailedBeforeStore
        /\ (isUndefined(last.args.take) /\ last.calls # <<>>) =>
            IF backend = "kv" THEN last.calls[1].input.Limit = Num(DefaultLimit)
            ELSE last.calls[1].input.maxItemCount = Num(DefaultLimit)

\* C10: on both backends create and update reject a payload that is not an
\* object or is an empty object before any store call (for update, after
\* the id check).
C10_BadPayloadFailsBeforeStore ==
    (/\ last.op \in {"create", "update"}
     /\ ~isObject(last.args.data) \/ objectIsEmpty(last.args.data)) =>
        FailedBeforeStore


-----------------------------------------------------------------------------
(* C11, C12, C13: the fields create and update add *)

IsCreated == last.op = "create" /\ last.ok

\* C11: create never overwrites a caller-supplied id, and the entity it
\* returns carries an id that is a non-empty string without whitespace,
\* whatever the partitionKey is called.
C11_CreatedEntityCarriesId ==
    (IsCreated /\ options.fields.id) =>
        /\ HasKey(last.args.data, "id") => last.value["id"] = Get(last.args.data, "id")
        /\ Has(last.value, "id")
        /\ IdSchema(last.value["id"])

\* C12: with auto timestamps the entity create returns and stores has
\* createdAt equal to updatedAt, even if the clock advances meanwhile.
C12_CreatedAtEqualsUpdatedAt ==
    (IsCreated /\ backend = "kv" /\ options.fields.timestamp) =>
        /\ last.value["createdAt"] = last.value["updatedAt"]
        /\ last.value \in table

Stamps == {"createdAt", "updatedAt"}

\* C13: with fields.id false create adds no generated id; with
\* fields.timestamp false create adds no createdAt/updatedAt and update adds
\* no updatedAt; with the option omitted both are enabled.
C13_DisabledFieldsAreNotAdded ==
    /\ (backend = "kv" /\ isUndefined(options.config)) =>
        (options.fields.id /\ options.fields.timestamp)
    /\ (IsCreated /\ backend = "kv" /\ ~options.fields.id) =>
        \A a \in DOMAIN last.value \ Stamps : HasKey(last.args.data, a)
    /\ (IsCreated /\ backend = "kv" /\ ~options.fields.timestamp) =>
        \A a \in DOMAIN last.value \cap Stamps : HasKey(last.args.data, a)
    /\ (last.op = "update" /\ last.ok /\ backend = "kv" /\ ~options.fields.timestamp) =>
        (Has(last.value, "updatedAt") =>
            \/ HasKey(last.args.data, "updatedAt")
            \/ \E old \in last.prev : Has(old, "updatedAt"))

-----------------------------------------------------------------------------
(* C14, C15, C16: operations by id *)

\* the records items holds under id
RecordsOf(items, id) ==
    IF backend = "kv"
    THEN { it \in items : KeyOf(options, it) = KeyFromId(options, id) }
    ELSE { it \in items : it["id"] = id }

NotFound == "We cannot find anything using the ID you provided"

\* what findOne answers for id on the current table
FindOneNow(id) ==
    IF backend = "kv" THEN KvFindOne(options, table, [id |-> id, select |-> Undefined], "ok")
    ELSE SqlFindOne(table, [id |-> id, select |-> Undefined], "ok")

DeleteCalls == { i \in 1..Len(last.calls) : last.calls[i].cmd \in {"item.delete", "DeleteItem"} }

Updated == { last.args.data.v[i][1] : i \in 1..Len(last.args.data.v) }
               \cup (IF options.fields.timestamp THEN {"updatedAt"} ELSE {})

IsKvUpdateOfStored ==
    /\ backend = "kv"
    /\ last.op = "update"
    /\ last.ok
    /\ RecordsOf(last.prev, last.args.id) # {}

\* C16: key-value update changes only the attributes named in data, plus
\* updatedAt when timestamps are enabled; every other attribute of the
\* stored item and every other item is unchanged, and the entity returned is
\* the full item after the update.
C16_UpdateChangesOnlyNamedAttributes ==
    IsKvUpdateOfStored =>
        \A old \in RecordsOf(last.prev, last.args.id) :
            /\ last.value \in table
            /\ table \ {last.value} = last.prev \ {old}
            /\ DOMAIN last.value = DOMAIN old \cup Updated
            /\ \A a \in DOMAIN old \ Updated : last.value[a] = old[a]
            /\ \A a \in Updated \ {"updatedAt"} : last.value[a] = Get(last.args.data, a)

\* a stamped item with an attribute outside data updated at a later instant
C16_Witness ==
    /\ IsKvUpdateOfStored
    /\ options.fields.timestamp
    /\ \E old \in RecordsOf(last.prev, last.args.id) :
        /\ DOMAIN old \ (Updated \cup KeyAttrs(options) \cup Stamps) # {}
        /\ old["updatedAt"] # last.value["updatedAt"]
        /\ old["createdAt"] = last.value["createdAt"]


-----------------------------------------------------------------------------
(* C17, C18, C19, C20: what the operators of a where map compile to *)

\* the operator keys the compiler of the current backend recognizes
Recognized ==
    IF backend = "kv"
    THEN DOMAIN operatorSymbols \cup {"contains", "startsWith", "endsWith"}
    ELSE DOMAIN Comparators \cup {"contains", "startsWith", "endsWith", "in", "notIn"}

\* empty, not an object, no operator key besides mode, or an unrecognized key
IsMalformedCondition(c) ==
    \/ ~isObject(c)
    \/ objectIsEmpty(c)
    \/ \A j \in 1..Len(c.v) : c.v[j][1] = "mode"
    \/ \E j \in 1..Len(c.v) : c.v[j][1] \notin Recognized \cup {"mode"}

\* C17: a where field whose FilterCondition is empty, is not an object, has
\* no operator key besides mode, or uses an unrecognized operator key makes
\* findMany fail on either backend.
C17_MalformedConditionFails ==
    (/\ IsFindMany
     /\ isObject(last.args.where)
     /\ \E i \in 1..Len(last.args.where.v) : IsMalformedCondition(last.args.where.v[i][2])) =>
        ~last.ok

\* the whole table was asked for: no take, no cursor
IsWholeQuery ==
    /\ IsFindMany
    /\ isUndefined(last.args.take)
    /\ isUndefined(last.args.nextCursor)
    /\ isUndefined(last.args.select)

\* the rows of the table, in store order, that P accepts
Rows(P(_)) == SelectSeq(ScanOrder(options, table), P)

\* where holds one field whose condition starts with the operator key op and
\* has no other operator
IsSingle(where, op) ==
    /\ isObject(where)
    /\ Len(where.v) = 1
    /\ isObject(where.v[1][2])
    /\ Len(Predicates(where)) = 1
    /\ where.v[1][2].v[1][1] = op

TheField == last.args.where.v[1][1]

TheOperand == last.args.where.v[1][2].v[1][2]

ContainsOperand(it) ==
    Has(it, TheField) /\ it[TheField].t = "S" /\ IsSubstring(TheOperand.v, it[TheField].v)

EndsWithOperand(it) ==
    Has(it, TheField) /\ it[TheField].t = "S" /\ IsSuffix(TheOperand.v, it[TheField].v)

IsSensitive == ModeOf(last.args.where.v[1][2]) # "INSENSITIVE"

IsTextOperator(op) == op \in {"contains", "startsWith", "endsWith"}

SatisfiesWhere(it) == Satisfies(last.args.where, it)

\* C19: with mode INSENSITIVE the contains, startsWith and endsWith
\* predicates of a condition compare the lower-cased field value with the
\* lower-cased operand, on both backends and wherever mode stands among the
\* keys; with mode absent the comparison is case-sensitive.
C19_ModeDecidesCaseFolding ==
    (/\ IsWholeQuery
     /\ isObject(last.args.where)
     /\ Predicates(last.args.where) # <<>>
     /\ \A i \in 1..Len(Predicates(last.args.where)) :
            IsTextOperator(Predicates(last.args.where)[i].filterKey)) =>
        /\ last.ok
        /\ last.value.items = Rows(SatisfiesWhere)

\* numbers and booleans bare, every other value single-quoted
Rendered(v) ==
    IF v.t \in {"N", "B"} THEN TemplateStr(v) ELSE "'" \o TemplateStr(v) \o "'"

\* C20: the SQL-like compiler renders in and notIn with an array operand as
\* 'c.<field> IN (v1, v2, ...)' or 'NOT IN (...)', elements in operand
\* order, numbers and booleans bare and other values single-quoted; a
\* non-array operand is an error, not a compiled clause.
C20_MembershipOverArrayOperand ==
    (/\ backend = "sql"
     /\ IsFindMany
     /\ isUndefined(last.args.take) \/ IsPositiveInt(last.args.take)
     /\ IsSingle(last.args.where, "in") \/ IsSingle(last.args.where, "notIn")) =>
        IF isArray(TheOperand)
        THEN /\ last.calls # <<>>
             /\ last.calls[1].input.query
                    = "SELECT * FROM c WHERE c." \o TheField
                        \o (IF IsSingle(last.args.where, "in") THEN " IN (" ELSE " NOT IN (")
                        \o Join([i \in 1..Len(TheOperand.v) |-> Rendered(TheOperand.v[i])], ", ")
                        \o ")"
        ELSE ~last.ok /\ last.calls = <<>>


-----------------------------------------------------------------------------
(* C21, C22: the SELECT list and the clause order of the SQL-like query *)

\* the columns of the select entries whose value is true, in map order
RECURSIVE ColumnsOf(_)
ColumnsOf(entries) ==
    IF entries = <<>> THEN <<>>
    ELSE (IF Head(entries)[2] = Bool(TRUE) THEN << "c." \o Head(entries)[1] >> ELSE <<>>)
            \o ColumnsOf(Tail(entries))

HasNoTrueField(select) ==
    \/ isUndefined(select)
    \/ isNull(select)
    \/ \A i \in 1..Len(select.v) : select.v[i][2] # Bool(TRUE)

\* C21: constructFieldSelection returns '*' exactly when select is
\* undefined, empty or without a field whose value is true; otherwise it
\* returns the fields whose value is true, each prefixed 'c.', in map
\* order, joined by ', '; it never returns an empty column list.
C21_FieldSelectionIsStarOrTrueFields ==
    (input.fn = "constructFieldSelection" /\ output.done) =>
        /\ output.val # ""
        /\ (output.val = "*") <=> HasNoTrueField(input.arg)
        /\ ~HasNoTrueField(input.arg) => output.val = Join(ColumnsOf(input.arg.v), ", ")

\* a select whose first entry is false and whose second is true, compiled
C21_Witness ==
    /\ input.fn = "constructFieldSelection"
    /\ output.done
    /\ isObject(input.arg)
    /\ Len(input.arg.v) = 2
    /\ input.arg.v[1][2] = Bool(FALSE)
    /\ input.arg.v[2][2] = Bool(TRUE)
    /\ output.val = "c." \o input.arg.v[2][1]

\* 'c.<field> <direction>' for every orderBy entry, in map order
RECURSIVE SortKeysOf(_)
SortKeysOf(entries) ==
    IF entries = <<>> THEN <<>>
    ELSE << "c." \o Head(entries)[1] \o " " \o Concat(Head(entries)[2].v) >>
            \o SortKeysOf(Tail(entries))

OrderByIsAbsentOrEmpty(orderBy) == isUndefined(orderBy) \/ objectIsEmpty(orderBy)

\* C22: buildQueryFindMany emits 'SELECT <fields> FROM c', then the WHERE
\* clause, then the ORDER BY clause, separated by single spaces, every empty
\* clause left out; the ORDER BY clause lists 'c.<field> <direction>' for
\* every orderBy entry in map order and is left out when orderBy is
\* undefined or empty.
C22_ClausesInFixedOrder ==
    (input.fn = "buildQueryFindMany" /\ output.done) =>
        LET dto == input.arg
            whereClause == buildWhereClause(dto.where)
        IN  output.val =
                "SELECT " \o constructFieldSelection(dto.select) \o " FROM c"
                    \o (IF whereClause = "" THEN "" ELSE " " \o whereClause)
                    \o (IF OrderByIsAbsentOrEmpty(dto.orderBy) THEN ""
                        ELSE " ORDER BY " \o Join(SortKeysOf(dto.orderBy.v), ", "))

\* a query with a select list, a WHERE clause and two sort keys
C22_Witness ==
    /\ input.fn = "buildQueryFindMany"
    /\ output.done
    /\ constructFieldSelection(input.arg.select) # "*"
    /\ buildWhereClause(input.arg.where) # ""
    /\ isObject(input.arg.orderBy)
    /\ Len(input.arg.orderBy.v) = 2
    /\ input.arg.orderBy.v[1][2] # input.arg.orderBy.v[2][2]


-----------------------------------------------------------------------------
(* C23: the result set findMany receives *)

\* a findMany whose store call was answered with a result
IsAnsweredFindMany ==
    /\ last.op = "findMany"
    /\ last.calls # <<>>
    /\ last.answers[1] # "down"

\* C23: findMany returns items = [] without error when the store's answer
\* has no result set, returns a list as the store gave it, and fails with
\* an error when the result set is null or another non-list.
C23_ResultSetIsNormalized ==
    IsAnsweredFindMany =>
        CASE last.answers[1] = "noSet" -> last.ok /\ last.value.items = <<>>
          [] last.answers[1] \in {"nullSet", "textSet"} -> ~last.ok
          [] OTHER ->
                (isUndefined(last.args.where) /\ isUndefined(last.args.take)) =>
                    /\ last.ok
                    /\ last.value.items = ScanOrder(options, last.prev)

-----------------------------------------------------------------------------
(* C25: a record deleted between the existence check and the mutation *)

\* the SQL-like update or delete that found its record and then sent its
\* replace or delete call for a record that was no longer there
MutatedAfterConcurrentDelete ==
    /\ backend = "sql"
    /\ last.op \in {"update", "delete"}
    /\ Len(last.calls) = 2
    /\ \A it \in last.prev : it["id"] # last.args.id

\* C25: on the SQL-like backend an update or delete whose record another
\* caller deleted between the existence check and the replace or delete
\* call ends in an error, and the record does not exist afterwards.
C25_ConcurrentDeleteIsSurfaced ==
    MutatedAfterConcurrentDelete =>
        /\ ~last.ok
        /\ last.error # ""
        /\ \A it \in table : it["id"] # last.args.id

\* an update that found its record, lost it to another caller and failed
C25_Witness ==
    /\ MutatedAfterConcurrentDelete
    /\ last.op = "update"
    /\ last.answers = <<"ok", "ok">>
    /\ last.calls[2].cmd = "item.replace"
    /\ ~last.ok

-----------------------------------------------------------------------------
(* C26: store calls per invocation and failed store calls *)

\* the store calls one invocation may make, in order
CallsAllowed ==
    IF backend = "sql" /\ last.op \in {"update", "delete"}
    THEN { <<"query.fetchAll">>,
           <<"query.fetchAll", IF last.op = "update" THEN "item.replace" ELSE "item.delete">> }
    ELSE { <<CASE last.op = "findMany" -> IF backend = "kv" THEN "Scan" ELSE "query.fetchNext"
               [] last.op = "findOne" -> IF backend = "kv" THEN "GetItem" ELSE "query.fetchAll"
               [] last.op = "create" -> IF backend = "kv" THEN "PutItem" ELSE "items.create"
               [] last.op = "update" -> "UpdateItem"
               [] last.op = "delete" -> "DeleteItem">> }

\* the texts the facade puts in front of a store's message
FailurePrefixes ==
    { "Failed to retrieve items from db. ", "Failed to retrieve item from db. ",
      "Failed to retrieve item form db. ", "Failed to create item in db. ",
      "Failed to update item. ", "Failed to delete item. " }

CarriesMessage(error, msg) == \E prefix \in FailurePrefixes : error = prefix \o msg

\* C26: an invocation that reaches the store issues exactly one store call,
\* except SQL-like update and delete, which issue one read and then, only if
\* the record was found, one replace or delete; a failed store call is the
\* last call of its invocation and is reported as an error carrying the
\* store's message.
C26_OneCallAndFailuresReported ==
    (last.op # "none" /\ last.calls # <<>>) =>
        /\ [i \in 1..Len(last.calls) |-> last.calls[i].cmd] \in CallsAllowed
        /\ (Len(last.calls) = 2) => last.answers[1] = "ok"
        /\ \A i \in 1..Len(last.calls) :
            last.answers[i] = "down" =>
                /\ i = Len(last.calls)
                /\ ~last.ok
                /\ CarriesMessage(last.error, "ServiceUnavailable")


-----------------------------------------------------------------------------
(* C24: select on the key-value backend *)

SelectedFields(select) ==
    { select.v[i][1] : i \in { j \in 1..Len(select.v) : select.v[j][2] = Bool(TRUE) } }

\* a key-value findMany or findOne that returned, called with a select
\* that has a true field
IsKvSelection ==
    /\ backend = "kv"
    /\ last.op \in {"findMany", "findOne"}
    /\ last.ok
    /\ isObject(last.args.select)
    /\ SelectedFields(last.args.select) # {}

ItemsReturned ==
    IF last.op = "findMany"
    THEN { last.value.items[i] : i \in 1..Len(last.value.items) }
    ELSE { last.value }

\* C24: on the key-value backend findMany and findOne called with a select
\* that has at least one true field return items holding only the selected
\* fields.
C24_KvReturnsOnlySelectedFields ==
    IsKvSelection =>
        \A it \in ItemsReturned : DOMAIN it \subseteq SelectedFields(last.args.select)


-----------------------------------------------------------------------------
(* C27: create, then findOne, update and delete by the created item's id *)

\* the partition-key value of the item create returned
CreatedId == last.value[options.partitionKey]

DeleteNow(id) == KvDelete(options, table, [id |-> id], "ok")

UpdateNow(id) ==
    KvUpdate(options, table,
             [id |-> id, data |-> Obj(<< <<"firstName", Str(<<"a">>)>> >>)], now, "ok")

\* C27: on the key-value backend, for every model configuration and every
\* payload create accepts, findOne with the partition-key value of the
\* created item returns that item, and update and delete with that id
\* address that item.
C27_CreatedItemIsAddressedById ==
    (backend = "kv" /\ IsCreated) =>
        /\ FindOneNow(CreatedId).ok
        /\ FindOneNow(CreatedId).value = last.value
        /\ DeleteNow(CreatedId).ok
        /\ DeleteNow(CreatedId).table = table \ {last.value}
        /\ UpdateNow(CreatedId).ok
        /\ UpdateNow(CreatedId).table = (table \ {last.value}) \cup {UpdateNow(CreatedId).value}


-----------------------------------------------------------------------------
(* C29: the id in the query of the SQL-like findOne *)

\* C29: for every id IdSchema accepts, the query of the SQL-like findOne
\* has one predicate, equality of c.id with that id, so the record it
\* returns is the record whose id is the given id.
C29_FindOneMatchesOnlyTheGivenId ==
    (backend = "sql" /\ last.op = "findOne" /\ last.ok) =>
        \E it \in last.prev :
            /\ it["id"] = last.args.id
            /\ last.value = Project(last.args.select, it)


-----------------------------------------------------------------------------
(* C30: the placeholders of a key-value findMany request *)

\* a key-value findMany that sent a filter
IsKvFilteredScan ==
    /\ backend = "kv"
    /\ IsFindMany
    /\ last.calls # <<>>
    /\ last.calls[1].input.FilterExpression # <<>>

ScanInput == last.calls[1].input

\* the texts a predicate over placeholders may have
PlaceholderTexts(name, value) ==
    { name \o " " \o operatorSymbols[op] \o " " \o value : op \in DOMAIN operatorSymbols }
        \cup { "contains(" \o name \o ", " \o value \o ")",
               "begins_with(" \o name \o ", " \o value \o ")" }

\* C30: in every key-value findMany request each predicate of
\* FilterExpression refers to its operand through a ':valN' placeholder of
\* its own, every such placeholder is bound in ExpressionAttributeValues to
\* that operand, of type string, number or boolean, and every '#field' used
\* is bound in ExpressionAttributeNames to that field.
C30_OperandsOnlyThroughPlaceholders ==
    IsKvFilteredScan =>
        LET frags == ScanInput.FilterExpression
            where == last.args.where
            n == Len(frags)
        IN  /\ n = Len(where.v)
            /\ \A i \in 1..n :
                /\ frags[i].value = ":val" \o ToString(i - 1)
                /\ frags[i].name = "#" \o where.v[i][1]
                /\ frags[i].text \in PlaceholderTexts(frags[i].name, frags[i].value)
                /\ ScanInput.ExpressionAttributeValues[frags[i].value] = where.v[i][2].v[1][2]
                /\ where.v[i][2].v[1][2].t \in {"S", "N", "NF", "B"}
                /\ ScanInput.ExpressionAttributeNames[frags[i].name] = where.v[i][1]
            /\ \A i, j \in 1..n : i # j => frags[i].value # frags[j].value
            /\ DOMAIN ScanInput.ExpressionAttributeValues = { frags[i].value : i \in 1..n }
            /\ DOMAIN ScanInput.ExpressionAttributeNames = { frags[i].name : i \in 1..n }

\* a request filtering on two fields, each with a placeholder of its own
C30_Witness ==
    /\ IsKvFilteredScan
    /\ Len(ScanInput.FilterExpression) = 2
    /\ ScanInput.FilterExpression[1].value = ":val0"
    /\ ScanInput.FilterExpression[2].value = ":val1"
    /\ last.ok


-----------------------------------------------------------------------------
(* C28: paging through the key-value findMany *)

\* what one call without take and cursor returns for the same where
WholeResult ==
    KvFindMany(options, table, [input.arg EXCEPT !.take = Undefined], "ok").value.items

\* the store's answer to the Scan the last call sent
ScanAnswer == Scan(options, last.prev, last.calls[1].input)

PagingIsDone == input.fn = "paginate" /\ output.done

\* C28: against an unchanging table the paging loop of the key-value
\* findMany ends after finitely many calls and has then returned every
\* matching item exactly once; nextCursor is undefined exactly when the
\* store reported no LastEvaluatedKey.
C28_PagingEndsAndIsComplete ==
    /\ <>PagingIsDone
    /\ [](PagingIsDone /\ last.ok => output.val = WholeResult)
    /\ [](last.op = "findMany" /\ last.ok =>
            (isUndefined(last.value.nextCursor) <=> ScanAnswer.LastEvaluatedKey = <<>>))

\* a loop that received an empty page with a cursor and items after it
C28_Witness ==
    /\ PagingIsDone
    /\ last.ok
    /\ \E i, j \in 1..Len(output.pages) : i < j /\ output.pages[i] = 0 /\ output.pages[j] > 0
    /\ Len(output.val) >= 2

====
